---------------------------- MODULE Spec2Model ----------------------------
(***************************************************************************)
(* A model of the photo viewer's core: the thumbnail generator with its    *)
(* disk cache (src/src/thumbnail_generator.py) and the virtual-scroll      *)
(* gallery that materializes thumbnail widgets                             *)
(* (src/src/photo_gallery.py).                                             *)
(*                                                                         *)
(* Everything below runs on the Qt main thread: every handler is entered   *)
(* from the event loop and runs to completion before the next one starts.  *)
(* The only handler given more than one step is _process_next_batch,       *)
(* which handles one request of its batch per step so that the file        *)
(* system (other processes) can change between two requests of a batch;    *)
(* no main-thread handler is enabled while it is running (pc = "batch").   *)
(***************************************************************************)
EXTENDS Integers, Sequences, FiniteSets, TLC

VARIABLES
    \* ThumbnailGenerator
    request_queue,      \* self.request_queue: sequence of <<file_path, size>>
    should_stop,        \* self.should_stop
    processing,         \* self.processing
    timer_active,       \* self.process_timer.isActive()
    batch,              \* local `batch` of _process_next_batch: requests not yet handled
    pc,                 \* "idle", or "batch" while _process_next_batch is running
    last_request,       \* the request of the running batch handled last
    last_outcome,       \* how it was served (see ProcessRequest)
    emitted,            \* the signals emitted while handling it, in order
    last_call,          \* the arguments of the latest request call, until the next
                        \* tick or clearing of the queue (observation only)
    \* Config and the disk
    cache_enabled,      \* config 'cache_thumbnails'
    cache,              \* cache directory: cache path -> [mtime, pixmap, ver]; ver is
                        \* the source's contents version when the entry was written
                        \* (observation only)
    files,              \* source files: path -> [exists, mtime, ver]
    now,                \* wall clock, in file-system timestamp units
    \* VirtualScrollGallery
    photos,             \* self.photos, as the sequence of their file_path
    thumbnail_widgets,  \* self.thumbnail_widgets, in insertion order
    visible_range,      \* self.visible_range
    thumbnail_size,     \* self.thumbnail_size
    columns,            \* self.columns
    row_height,         \* self.row_height
    rows,               \* self.rows
    max_thumbnails,     \* self.max_thumbnails
    scroll_value,       \* self.verticalScrollBar().value()
    viewport_timer,     \* self.viewport_timer.isActive()
    viewport_width,     \* self.viewport().width()
    viewport_height,    \* self.viewport().rect().height()
    \* PhotoScanner (a QThread) and MainWindow
    root_path,          \* self.root_path
    scan_should_stop,   \* PhotoScanner.should_stop
    photos_found,       \* self.photos_found
    total_files,        \* self.total_files
    scan_pc,            \* where the scanner thread is: "stopped" (not running),
                        \* "started", "count", "scan", "store", "finish"
    walk_root,          \* the root_path argument of the pass that is running
    walk_pos,           \* how many files of the walk the running pass has taken
    count_total,        \* local `total` of _count_files
    processed,          \* local `processed` of _scan_directory
    found_load,         \* the value `self.photos_found += 1` has read and not yet stored
    scan_signals,       \* the scanner's signals queued for the main thread
    photo_database,     \* PhotoDatabase.photos, as the sequence of their file_path
    scan_events,        \* the events the thread has emitted since it was last
                        \* started (observation only)
    scan_call_error,    \* the path of the error the latest scan_photos call emitted
                        \* itself, or NoError (observation only)
    cancel_at,          \* scan_pc when stop_scanning was last called in this run,
                        \* or "none" (observation only)
    scan_calls,         \* how often start_scanning has reached scan_photos
    \* PhotoDatabase (its master list is photo_database)
    photos_by_folder,   \* self.photos_by_folder: folder_path -> items, in order
    photos_by_hash,     \* self.photos_by_hash: file_hash -> item
    db_read             \* what the latest read returned to its caller, as the
                        \* caller now sees it (see NoRead)

genVars == <<request_queue, should_stop, processing, timer_active, batch, pc,
             last_request, last_outcome, emitted, last_call>>
envVars == <<cache_enabled, cache, files, now>>
layoutVars == <<thumbnail_size, columns, row_height, rows, max_thumbnails,
                scroll_value, viewport_timer, viewport_width, viewport_height>>
galVars == <<photos, thumbnail_widgets, visible_range, layoutVars>>
scanVars == <<root_path, scan_should_stop, photos_found, total_files, scan_pc, walk_root,
              walk_pos, count_total, processed, found_load, scan_signals, photo_database,
              scan_events, scan_call_error, cancel_at, scan_calls>>
dbVars == <<photos_by_folder, photos_by_hash, db_read>>
vars == <<genVars, envVars, galVars, scanVars, dbVars>>

---------------------------------------------------------------------------
\* Bounds of the model

\* The clock stops advancing at MaxTime.
MaxTime == 1
\* A source file is rewritten at most MaxVer times.
MaxVer == 1
\* request_thumbnails_batch is called with lists of at most MaxBatchCall paths.
MaxBatchCall == 2
\* The gallery is given lists of at most MaxPhotos photos.
MaxPhotos == 5
\* The gallery requests QueueLoad thumbnails at once (at most max_new_thumbnails).
QueueLoad == 21
\* The long photo list has LongListLen photos.
LongListLen == 8
\* The database holds at most MaxDbItems items.
MaxDbItems == 3
\* start_scanning reaches scan_photos at most MaxScanCalls times.
MaxScanCalls == 2

---------------------------------------------------------------------------
\* Program constants

max_batch_size == 20
max_new_thumbnails == 30

\* Thumbnail sizes: two values of the settings slider's range (100..400).
Sizes == {100, 180}
\* The 'thumbnail_size' and 'max_thumbnails' settings the gallery starts with:
\* the values of the configuration's table of defaults.
DefaultThumbnailSize == 180
DefaultMaxThumbnails == 200

supported_formats ==
    {".jpg", ".jpeg", ".png", ".gif", ".bmp", ".tiff", ".tif", ".webp", ".ico", ".svg"}
video_formats ==
    {".mp4", ".avi", ".mov", ".mkv", ".wmv", ".flv", ".webm", ".m4v", ".3gp", ".ogv"}

---------------------------------------------------------------------------
\* Paths

\* A file whose name holds bytes that are not valid UTF-8: Python reads such a
\* name as a str with lone surrogates, which str.encode('utf-8') rejects.
BadPath == "raw-bytes.jpg"

\* The paths requests are made for, and whose files may change.
GenPaths == {"a.jpg", "b.mp4", "c.txt", BadPath}
\* The paths requested where the queue is studied, the files that get deleted,
\* and the requests made where the cache is studied.
QueuePaths == {"a.jpg", "b.mp4"}
DeletedPaths == {"a.jpg", BadPath}
CacheRequests == {<<"a.jpg", 100>>, <<"a.jpg", 180>>}
FilePaths == GenPaths

\* os.path.splitext(file_path.lower())[1]
Extension(file_path) ==
    CASE file_path = "b.mp4" -> ".mp4"
      [] file_path = "c.txt" -> ".txt"
      [] OTHER -> ".jpg"

\* Whether f"{file_path}_{size}".encode('utf-8') succeeds.
Utf8Encodable(file_path) == file_path # BadPath

\* A file outside FilePaths (a scanned photo) exists and is never touched.
StaticFile == [exists |-> TRUE, mtime |-> 0, ver |-> 0]
FileOf(file_path) == IF file_path \in DOMAIN files THEN files[file_path] ELSE StaticFile

---------------------------------------------------------------------------
\* Pixmaps.  kind: "None" (Python None), "null" (a null QPixmap), "image" (a
\* decoded and scaled source image), "video" (the video placeholder), "error"
\* (the error placeholder), "loading" (a widget's own placeholder), "text" (a
\* widget showing text).  src and ver say which file contents it was made from,
\* size the box it was generated for.

None == [kind |-> "None", src |-> "", ver |-> 0, size |-> 0]
NullPixmap == [kind |-> "null", src |-> "", ver |-> 0, size |-> 0]
ImagePixmap(file_path, size) ==
    [kind |-> "image", src |-> file_path, ver |-> FileOf(file_path).ver, size |-> size]
CreateVideoPlaceholder(size, file_path) ==
    [kind |-> "video", src |-> file_path, ver |-> 0, size |-> size]
CreateErrorThumbnail(size) == [kind |-> "error", src |-> "", ver |-> 0, size |-> size]
CreatePlaceholder(size) == [kind |-> "loading", src |-> "", ver |-> 0, size |-> size]
FailedText == [kind |-> "text", src |-> "", ver |-> 0, size |-> 0]

IsNull(pixmap) == pixmap.kind = "null"

\* Signals
ReadyEvent(file_path, pixmap) == [type |-> "ready", path |-> file_path, pixmap |-> pixmap]
ErrorEvent(file_path) == [type |-> "error", path |-> file_path, pixmap |-> None]

NoRequest == <<"", 0>>
NoCall == [paths |-> <<>>, size |-> 0]

---------------------------------------------------------------------------
\* Sequence helpers

Range(seq) == {seq[i] : i \in 1..Len(seq)}
Min(a, b) == IF a < b THEN a ELSE b
Max(a, b) == IF a > b THEN a ELSE b
SeqsUpTo(S, n) == UNION {[1..k -> S] : k \in 0..n}

---------------------------------------------------------------------------
\* ThumbnailGenerator: the request queue

\* Faulty variant of AlreadyQueued: no membership test at all.
NeverQueued(file_path, size, queue) == FALSE

\* `file_path not in [req[0] for req in self.request_queue]` is False
AlreadyQueued(file_path, size, queue) ==
    file_path \in {queue[i][1] : i \in 1..Len(queue)}

\* One iteration of the enqueue loop.
Enqueue(queue, file_path, size) ==
    IF AlreadyQueued(file_path, size, queue) THEN queue
    ELSE Append(queue, <<file_path, size>>)

RECURSIVE EnqueueAll(_, _, _)
EnqueueAll(queue, file_paths, size) ==
    IF file_paths = <<>> THEN queue
    ELSE EnqueueAll(Enqueue(queue, Head(file_paths), size), Tail(file_paths), size)

\* Faulty variant of RequestThumbnail: the process timer is not started.
RequestWithoutStart(file_path, size) ==
    /\ pc = "idle"
    /\ request_queue' = Enqueue(request_queue, file_path, size)
    /\ last_call' = [paths |-> <<file_path>>, size |-> size]
    /\ UNCHANGED <<should_stop, processing, timer_active, batch, pc,
                   last_request, last_outcome, emitted>>
    /\ UNCHANGED <<envVars, galVars, scanVars, dbVars>>

\* request_thumbnail(file_path, size); a size of None has been replaced by the
\* configured size (lines 48-49) before the call reaches the queue.
RequestThumbnail(file_path, size) ==
    /\ pc = "idle"
    /\ request_queue' = Enqueue(request_queue, file_path, size)
    /\ timer_active' = TRUE
    /\ last_call' = [paths |-> <<file_path>>, size |-> size]
    /\ UNCHANGED <<should_stop, processing, batch, pc, last_request, last_outcome, emitted>>
    /\ UNCHANGED <<envVars, galVars, scanVars, dbVars>>

\* The generator's part of request_thumbnails_batch(file_paths, size).
RequestBatchEffect(file_paths, size) ==
    /\ request_queue' = EnqueueAll(request_queue, file_paths, size)
    /\ timer_active' = TRUE
    /\ last_call' = [paths |-> file_paths, size |-> size]
    /\ UNCHANGED <<should_stop, processing, batch, pc, last_request, last_outcome, emitted>>

RequestThumbnailsBatch(file_paths, size) ==
    /\ pc = "idle"
    /\ RequestBatchEffect(file_paths, size)
    /\ UNCHANGED <<envVars, galVars, scanVars, dbVars>>

StopGeneration ==
    /\ pc = "idle"
    /\ timer_active' = FALSE
    /\ should_stop' = TRUE
    /\ request_queue' = <<>>
    /\ last_call' = NoCall
    /\ UNCHANGED <<processing, batch, pc, last_request, last_outcome, emitted>>
    /\ UNCHANGED <<envVars, galVars, scanVars, dbVars>>

\* A faulty variant of clear_queue: the first pending request stays queued.
ClearQueueKeepingHead ==
    /\ pc = "idle"
    /\ request_queue' = SubSeq(request_queue, 1, Min(1, Len(request_queue)))
    /\ last_call' = NoCall
    /\ UNCHANGED <<should_stop, processing, timer_active, batch, pc,
                   last_request, last_outcome, emitted>>
    /\ UNCHANGED <<envVars, galVars, scanVars, dbVars>>

ClearQueue ==
    /\ pc = "idle"
    /\ request_queue' = <<>>
    /\ last_call' = NoCall
    /\ UNCHANGED <<should_stop, processing, timer_active, batch, pc,
                   last_request, last_outcome, emitted>>
    /\ UNCHANGED <<envVars, galVars, scanVars, dbVars>>

\* stop_generation and clear_queue called while a batch is running: by a slot
\* that a signal of the batch has entered (the emit of lines 118, 124 or 129
\* runs the connected slots before it returns).
StopGenerationInBatch ==
    /\ pc = "batch"
    /\ emitted # <<>>
    /\ timer_active' = FALSE
    /\ should_stop' = TRUE
    /\ request_queue' = <<>>
    /\ last_call' = NoCall
    /\ UNCHANGED <<processing, batch, pc, last_request, last_outcome, emitted>>
    /\ UNCHANGED <<envVars, galVars, scanVars, dbVars>>

ClearQueueInBatch ==
    /\ pc = "batch"
    /\ emitted # <<>>
    /\ request_queue' = <<>>
    /\ last_call' = NoCall
    /\ UNCHANGED <<should_stop, processing, timer_active, batch, pc,
                   last_request, last_outcome, emitted>>
    /\ UNCHANGED <<envVars, galVars, scanVars, dbVars>>

---------------------------------------------------------------------------
\* ThumbnailGenerator: the disk cache

\* _get_cache_path: the md5 digest of f"{file_path}_{size}" names the file; the
\* digest is taken to be collision free, so the digested string stands for it.
GetCachePath(file_path, size) == file_path \o "_" \o ToString(size)

\* Faulty variants of CacheIsNewer: an entry is never, or also at equal
\* timestamps, taken to be newer.
CacheNeverNewer(cache_mtime, file_mtime) == FALSE
CacheNotOlder(cache_mtime, file_mtime) == cache_mtime >= file_mtime

\* `cache_mtime > file_mtime`
CacheIsNewer(cache_mtime, file_mtime) == cache_mtime > file_mtime

\* Faulty variant of GetCachedThumbnail: the caching setting is not consulted.
GetCachedIgnoringSetting(file_path, size) ==
    LET cache_path == GetCachePath(file_path, size) IN
    IF cache_path \in DOMAIN cache /\ FileOf(file_path).exists
       /\ CacheIsNewer(cache[cache_path].mtime, FileOf(file_path).mtime)
       /\ ~IsNull(cache[cache_path].pixmap)
    THEN cache[cache_path].pixmap
    ELSE None

\* _get_cached_thumbnail, for a path whose cache path can be computed.
\* os.path.getmtime(file_path) raises for a missing source file; the except
\* clause turns that into None.
GetCachedThumbnail(file_path, size) ==
    IF ~cache_enabled THEN None
    ELSE LET cache_path == GetCachePath(file_path, size) IN
         IF cache_path \in DOMAIN cache
         THEN IF ~FileOf(file_path).exists THEN None
              ELSE IF CacheIsNewer(cache[cache_path].mtime, FileOf(file_path).mtime)
                   THEN IF ~IsNull(cache[cache_path].pixmap)
                        THEN cache[cache_path].pixmap
                        ELSE None
                   ELSE None
         ELSE None

\* What thumbnail.save(cache_path, "PNG") can do: write the file, fail leaving
\* the directory as it was, or leave a file that does not load (disk full).
SaveOutcomes == {"saved", "failed", "partial"}

\* _cache_thumbnail: every exception is swallowed, the cache path's included.
CacheThumbnail(file_path, thumbnail, size, saved) ==
    IF ~Utf8Encodable(file_path) \/ saved = "failed" THEN cache
    ELSE LET cache_path == GetCachePath(file_path, size)
             entry == [mtime |-> now,
                       pixmap |-> IF saved = "saved" THEN thumbnail ELSE NullPixmap,
                       ver |-> FileOf(file_path).ver]
         IN [k \in DOMAIN cache \cup {cache_path} |->
                IF k = cache_path THEN entry ELSE cache[k]]

\* clear_cache
ClearCache ==
    /\ pc = "idle"
    /\ cache # [k \in {} |-> None]
    /\ cache' = [k \in {} |-> None]
    /\ UNCHANGED <<cache_enabled, files, now>>
    /\ UNCHANGED <<genVars, galVars, scanVars, dbVars>>

---------------------------------------------------------------------------
\* ThumbnailGenerator: generation

\* What _generate_thumbnail can do for a path, given the file system:
\*   "missing"         os.path.exists is False (line 150)
\*   "decoded"         _generate_image_thumbnail returns the scaled image
\*   "undecodable"     neither QPixmap nor PIL reads the file: None
\*   "image_exception" the except clause of _generate_image_thumbnail (line 253)
\*   "placeholder"     _generate_video_thumbnail returns the video placeholder
\*   "video_exception" the except clause of _generate_video_thumbnail (line 263)
\*   "unsupported"     the extension is in neither format list (line 161)
\*   "raised"          an exception reaches the except clause of
\*                     _generate_thumbnail (line 163), for example the membership
\*                     test on a format list the settings hold as a non-container
GenerateOutcomes(file_path) ==
    IF ~FileOf(file_path).exists THEN {"missing"}
    ELSE {"raised"} \cup
         (IF Extension(file_path) \in supported_formats
          THEN {"decoded", "undecodable", "image_exception"}
          ELSE IF Extension(file_path) \in video_formats
               THEN {"placeholder", "video_exception"}
               ELSE {"unsupported"})

\* The value _generate_thumbnail returns.
GenerateThumbnail(file_path, size, outcome) ==
    CASE outcome = "decoded" -> ImagePixmap(file_path, size)
      [] outcome = "placeholder" -> CreateVideoPlaceholder(size, file_path)
      [] outcome \in {"image_exception", "video_exception"} -> CreateErrorThumbnail(size)
      [] OTHER -> None

\* Faulty variant of GenerateSignals: error_occurred for every failed generation.
SignalEveryFailure(file_path, outcome) ==
    IF outcome \in {"raised", "missing", "unsupported", "undecodable"}
    THEN <<ErrorEvent(file_path)>>
    ELSE <<>>

\* The signals _generate_thumbnail emits itself (line 164).
GenerateSignals(file_path, outcome) ==
    IF outcome = "raised" THEN <<ErrorEvent(file_path)>> ELSE <<>>

\* Faulty variant of EmitResult: error_occurred instead of the error raster.
EmitErrorWhenNone(file_path, size, thumbnail) ==
    IF thumbnail # None /\ ~IsNull(thumbnail)
    THEN <<ReadyEvent(file_path, thumbnail)>>
    ELSE <<ErrorEvent(file_path)>>

\* Lines 117-124: what is emitted for the thumbnail the request ended with.
EmitResult(file_path, size, thumbnail) ==
    IF thumbnail # None /\ ~IsNull(thumbnail)
    THEN <<ReadyEvent(file_path, thumbnail)>>
    ELSE <<ReadyEvent(file_path, CreateErrorThumbnail(size))>>

---------------------------------------------------------------------------
\* VirtualScrollGallery: the slots connected to the generator's signals

\* on_thumbnail_ready / PhotoThumbnail.set_thumbnail, on_thumbnail_error
OnSignal(widgets, event) ==
    [i \in 1..Len(widgets) |->
        IF widgets[i].path # event.path THEN widgets[i]
        ELSE IF event.type = "error" THEN [widgets[i] EXCEPT !.pixmap = FailedText]
        ELSE IF ~IsNull(event.pixmap) THEN [widgets[i] EXCEPT !.pixmap = event.pixmap]
        ELSE widgets[i]]

RECURSIVE Deliver(_, _)
Deliver(widgets, events) ==
    IF events = <<>> THEN widgets
    ELSE Deliver(OnSignal(widgets, Head(events)), Tail(events))

---------------------------------------------------------------------------
\* ThumbnailGenerator: _process_next_batch

\* A faulty variant of the tick: it runs without the test of self.processing,
\* also inside a running batch, and handles what it dequeues first.
ProcessNextBatchReentrant ==
    /\ timer_active
    /\ last_call' = NoCall
    /\ IF should_stop \/ request_queue = <<>>
       THEN /\ timer_active' = FALSE
            /\ UNCHANGED <<request_queue, should_stop, processing, batch, pc,
                           last_request, last_outcome, emitted>>
       ELSE LET batch_size == Min(max_batch_size, Len(request_queue)) IN
            /\ batch' = SubSeq(request_queue, 1, batch_size) \o batch
            /\ request_queue' = SubSeq(request_queue, batch_size + 1, Len(request_queue))
            /\ processing' = TRUE
            /\ pc' = "batch"
            /\ UNCHANGED <<should_stop, timer_active, last_request, last_outcome, emitted>>
    /\ UNCHANGED <<envVars, galVars, scanVars, dbVars>>

\* A faulty variant of the tick: the batch is taken from the tail of the queue.
ProcessNextBatchFromTail ==
    /\ pc = "idle"
    /\ timer_active
    /\ ~processing
    /\ last_call' = NoCall
    /\ IF should_stop \/ request_queue = <<>>
       THEN /\ timer_active' = FALSE
            /\ UNCHANGED <<request_queue, should_stop, processing, batch, pc,
                           last_request, last_outcome, emitted>>
       ELSE LET batch_size == Min(max_batch_size, Len(request_queue)) IN
            /\ batch' = SubSeq(request_queue, Len(request_queue) - batch_size + 1,
                               Len(request_queue))
            /\ request_queue' = SubSeq(request_queue, 1, Len(request_queue) - batch_size)
            /\ processing' = TRUE
            /\ pc' = "batch"
            /\ UNCHANGED <<should_stop, timer_active, last_request, last_outcome, emitted>>
    /\ UNCHANGED <<envVars, galVars, scanVars, dbVars>>

\* The timer fires: lines 85-101.
ProcessNextBatch ==
    /\ pc = "idle"
    /\ timer_active
    /\ ~processing
    /\ last_call' = NoCall
    /\ IF should_stop \/ request_queue = <<>>
       THEN /\ timer_active' = FALSE
            /\ UNCHANGED <<request_queue, should_stop, processing, batch, pc,
                           last_request, last_outcome, emitted>>
       ELSE LET batch_size == Min(max_batch_size, Len(request_queue)) IN
            /\ batch' = SubSeq(request_queue, 1, batch_size)
            /\ request_queue' = SubSeq(request_queue, batch_size + 1, Len(request_queue))
            /\ processing' = TRUE
            /\ pc' = "batch"
            /\ UNCHANGED <<should_stop, timer_active, last_request, last_outcome, emitted>>
    /\ UNCHANGED <<envVars, galVars, scanVars, dbVars>>

\* One iteration of the loop of lines 105-129, for the head of the batch.
\* last_outcome is "path_error" (the cache path cannot be computed: the
\* exception leaves _get_cached_thumbnail and reaches line 126), "cache_hit",
\* or the outcome of _generate_thumbnail.
ProcessRequest ==
    /\ pc = "batch"
    /\ batch # <<>>
    /\ LET file_path == Head(batch)[1]
           size == Head(batch)[2]
       IN
       /\ last_request' = Head(batch)
       /\ batch' = Tail(batch)
       /\ IF cache_enabled /\ ~Utf8Encodable(file_path)
          THEN /\ last_outcome' = "path_error"
               /\ emitted' = <<ErrorEvent(file_path)>>
               /\ cache' = cache
          ELSE LET cached == GetCachedThumbnail(file_path, size) IN
               IF cached # None
               THEN /\ last_outcome' = "cache_hit"
                    /\ emitted' = EmitResult(file_path, size, cached)
                    /\ cache' = cache
               ELSE \E outcome \in GenerateOutcomes(file_path), saved \in SaveOutcomes :
                       LET thumbnail == GenerateThumbnail(file_path, size, outcome) IN
                       /\ last_outcome' = outcome
                       /\ cache' = IF thumbnail # None /\ cache_enabled
                                   THEN CacheThumbnail(file_path, thumbnail, size, saved)
                                   ELSE cache
                       /\ emitted' = GenerateSignals(file_path, outcome)
                                       \o EmitResult(file_path, size, thumbnail)
    /\ thumbnail_widgets' = Deliver(thumbnail_widgets, emitted')
    /\ UNCHANGED <<request_queue, should_stop, processing, timer_active, pc, last_call>>
    /\ UNCHANGED <<cache_enabled, files, now>>
    /\ UNCHANGED <<photos, visible_range, layoutVars, scanVars, dbVars>>

\* The batch is drained: lines 131-143.  (generation_progress has no receiver.)
BatchDone ==
    /\ pc = "batch"
    /\ batch = <<>>
    /\ processing' = FALSE
    /\ timer_active' = IF request_queue # <<>> /\ ~should_stop THEN timer_active ELSE FALSE
    /\ pc' = "idle"
    /\ last_request' = NoRequest
    /\ last_outcome' = "none"
    /\ emitted' = <<>>
    /\ UNCHANGED <<request_queue, should_stop, batch, last_call>>
    /\ UNCHANGED <<envVars, galVars, scanVars, dbVars>>

---------------------------------------------------------------------------
\* The environment: the settings dialog, the clock, other processes

\* apply_settings stores the cache check box (settings_window.py line 367).
SetCacheEnabled ==
    /\ pc = "idle"
    /\ cache_enabled' = ~cache_enabled
    /\ UNCHANGED <<cache, files, now>>
    /\ UNCHANGED <<genVars, galVars, scanVars, dbVars>>

AdvanceClock ==
    /\ now < MaxTime
    /\ now' = now + 1
    /\ UNCHANGED <<cache_enabled, cache, files>>
    /\ UNCHANGED <<genVars, galVars, scanVars, dbVars>>

\* A process rewrites a source file: new contents, modification time now.
TouchFile(file_path) ==
    /\ files[file_path].exists
    /\ files[file_path].ver < MaxVer
    /\ files' = [files EXCEPT ![file_path] =
                    [exists |-> TRUE, mtime |-> now, ver |-> @.ver + 1]]
    /\ UNCHANGED <<cache_enabled, cache, now>>
    /\ UNCHANGED <<genVars, galVars, scanVars, dbVars>>

DeleteFile(file_path) ==
    /\ files[file_path].exists
    /\ files' = [files EXCEPT ![file_path].exists = FALSE]
    /\ UNCHANGED <<cache_enabled, cache, now>>
    /\ UNCHANGED <<genVars, galVars, scanVars, dbVars>>

---------------------------------------------------------------------------
\* VirtualScrollGallery: layout

\* int(a / b) for b > 0: Python truncates the quotient toward zero.
TruncDiv(a, b) == IF a >= 0 THEN a \div b ELSE -((-a) \div b)

\* math.ceil(a / b) for a >= 0, b > 0
CeilDiv(a, b) == (a + b - 1) \div b

Abs(a) == IF a < 0 THEN -a ELSE a

\* calculate_layout: self.columns
LayoutColumns(width, size) == Max(1, TruncDiv(width - 24, size + 6 + 8))

\* calculate_layout: self.rows
LayoutRows(n_photos, cols) == CeilDiv(n_photos, cols)

\* The scroll bar's maximum once the content widget has the height
\* calculate_layout gives it (rows * row_height + margins).
ScrollMaximum(rws, rh, height) == Max(0, rws * rh + 24 - height)

\* update_visible_items: (start_index, end_index), 0-based, end exclusive
ComputeRange(n_photos, cols, rh, rws, scroll, height) ==
    LET first_visible_row == Max(0, (scroll - 100) \div rh)
        last_visible_row == Min(rws - 1, (scroll + height + 100) \div rh)
    IN <<first_visible_row * cols, Min(n_photos, (last_visible_row + 1) * cols)>>

\* update_visible_items: "the visible range hasn't changed significantly"
RangeUnchanged(range, old_range, cols) ==
    /\ Abs(range[1] - old_range[1]) < cols * 2
    /\ Abs(range[2] - old_range[2]) < cols * 2

WidgetPaths(widgets) == {widgets[k].path : k \in 1..Len(widgets)}

RECURSIVE CreateVisibleThumbnails(_, _, _, _, _, _)
\* create_visible_thumbnails, from index i (0-based) on, `count` widgets already
\* created by this call: the widgets afterwards.
CreateVisibleThumbnails(ph, widgets, i, end_index, count, size) ==
    IF i >= end_index \/ i >= Len(ph) THEN widgets
    ELSE IF ph[i + 1] \notin WidgetPaths(widgets)
         THEN LET created == Append(widgets, [path |-> ph[i + 1], size |-> size,
                                              pixmap |-> CreatePlaceholder(size)])
              IN IF count + 1 >= max_new_thumbnails THEN created
                 ELSE CreateVisibleThumbnails(ph, created, i + 1, end_index, count + 1, size)
         ELSE CreateVisibleThumbnails(ph, widgets, i + 1, end_index, count, size)

\* next((i for i, p in enumerate(self.photos) if p.file_path == photo_path), -1)
PhotoIndex(ph, photo_path) ==
    IF \E k \in 1..Len(ph) : ph[k] = photo_path
    THEN (CHOOSE k \in 1..Len(ph) : ph[k] = photo_path /\ \A j \in 1..(k - 1) : ph[j] # photo_path) - 1
    ELSE -1

\* A faulty variant of Removable: the visible paths are not spared.
RemovableAlsoVisible(photo_path, photo_index, visible_paths, buffer_start, buffer_end, current_count, limit) ==
    \/ photo_index < buffer_start
    \/ photo_index >= buffer_end
    \/ current_count > limit

\* cleanup_invisible_thumbnails: whether the loop appends photo_path to
\* paths_to_remove when it reaches it with current_count widgets counted.
Removable(photo_path, photo_index, visible_paths, buffer_start, buffer_end, current_count, limit) ==
    /\ photo_path \notin visible_paths
    /\ \/ photo_index < buffer_start
       \/ photo_index >= buffer_end
       \/ current_count > limit

RECURSIVE PathsToRemove(_, _, _, _, _, _, _, _)
\* cleanup_invisible_thumbnails: the loop over self.thumbnail_widgets.items(),
\* from widget k on.
PathsToRemove(ph, widgets, k, visible_paths, buffer_start, buffer_end, current_count, limit) ==
    IF k > Len(widgets) THEN {}
    ELSE IF Removable(widgets[k].path, PhotoIndex(ph, widgets[k].path), visible_paths,
                      buffer_start, buffer_end, current_count, limit)
         THEN IF current_count - 1 <= limit THEN {widgets[k].path}
              ELSE {widgets[k].path} \cup
                   PathsToRemove(ph, widgets, k + 1, visible_paths, buffer_start,
                                 buffer_end, current_count - 1, limit)
         ELSE PathsToRemove(ph, widgets, k + 1, visible_paths, buffer_start,
                            buffer_end, current_count, limit)

RECURSIVE WithoutPaths(_, _)
WithoutPaths(widgets, paths) ==
    IF widgets = <<>> THEN <<>>
    ELSE IF Head(widgets).path \in paths THEN WithoutPaths(Tail(widgets), paths)
         ELSE <<Head(widgets)>> \o WithoutPaths(Tail(widgets), paths)

\* A faulty variant of the cleanup: above the ceiling it does not stop at the
\* ceiling and removes every widget outside the visible range.
CleanupWithoutStop(ph, widgets, start_index, end_index, cols, limit) ==
    LET visible_paths == {ph[i + 1] : i \in {j \in start_index..(end_index - 1) : j < Len(ph)}}
    IN IF Len(widgets) > limit
       THEN WithoutPaths(widgets, WidgetPaths(widgets) \ visible_paths)
       ELSE widgets

\* cleanup_invisible_thumbnails: the widgets afterwards.
CleanupInvisibleThumbnails(ph, widgets, start_index, end_index, cols, limit) ==
    LET buffer == cols * 3
        buffer_start == Max(0, start_index - buffer)
        buffer_end == Min(Len(ph), end_index + buffer)
        visible_paths == {ph[i + 1] : i \in {j \in start_index..(end_index - 1) : j < Len(ph)}}
    IN IF Len(widgets) > limit
       THEN WithoutPaths(widgets, PathsToRemove(ph, widgets, 1, visible_paths, buffer_start,
                                                buffer_end, Len(widgets), limit))
       ELSE widgets

\* The paths create_visible_thumbnails requests: those of the widgets it added.
NewRequests(old_widgets, new_widgets) ==
    [k \in 1..(Len(new_widgets) - Len(old_widgets)) |-> new_widgets[Len(old_widgets) + k].path]

\* A faulty variant of update_visible_items: it does not compare the range with
\* the stored one and always updates.
UpdateVisibleItemsAlways(ph, widgets, old_range, cols, rh, rws, scroll, height, size, limit) ==
    LET range == ComputeRange(Len(ph), cols, rh, rws, scroll, height)
        created == CreateVisibleThumbnails(ph, widgets, range[1], range[2], 0, size)
    IN IF ph = <<>>
       THEN [visible_range |-> old_range, widgets |-> widgets, requests |-> <<>>]
       ELSE [visible_range |-> range,
             widgets |-> CleanupInvisibleThumbnails(ph, created, range[1], range[2], cols, limit),
             requests |-> NewRequests(widgets, created)]

\* update_visible_items, run with the given photos, widgets, layout and scroll
\* position: the new visible_range and widgets, and the paths requested from the
\* generator.
UpdateVisibleItems(ph, widgets, old_range, cols, rh, rws, scroll, height, size, limit) ==
    LET range == ComputeRange(Len(ph), cols, rh, rws, scroll, height)
        created == CreateVisibleThumbnails(ph, widgets, range[1], range[2], 0, size)
    IN IF ph = <<>> \/ RangeUnchanged(range, old_range, cols)
       THEN [visible_range |-> old_range, widgets |-> widgets, requests |-> <<>>]
       ELSE [visible_range |-> range,
             widgets |-> CleanupInvisibleThumbnails(ph, created, range[1], range[2], cols, limit),
             requests |-> NewRequests(widgets, created)]

\* The effect of an update_visible_items result on the gallery and the generator.
ApplyUpdate(update, size) ==
    /\ visible_range' = update.visible_range
    /\ thumbnail_widgets' = update.widgets
    /\ IF update.requests # <<>>
       THEN RequestBatchEffect(update.requests, size)
       ELSE UNCHANGED genVars

---------------------------------------------------------------------------
\* VirtualScrollGallery: the handlers

\* The photo lists the gallery is given: the scanned photos, named p1.jpg, ...
Photo(i) == "p" \o ToString(i) \o ".jpg"
PhotoList(n) == [i \in 1..n |-> Photo(i)]
PhotoLists == {PhotoList(0), PhotoList(2), PhotoList(MaxPhotos)}

\* Viewport sizes and scroll positions, in pixels.
ViewportWidths == {250, 450}
ViewportHeights == {200, 600}
ScrollStep == 300
ScrollPositions(maximum) == {v \in 0..maximum : v % ScrollStep = 0} \cup {maximum}

\* Values of the 'max_thumbnails' setting (200 when the settings hold none).
MaxThumbnailsChoices == {2, 4}

\* set_photos: its effect on the gallery and the generator.
SetPhotosEffect(new_photos) ==
    /\ photos' = new_photos
    /\ IF new_photos = <<>>
       THEN /\ thumbnail_widgets' = <<>>
            /\ UNCHANGED <<visible_range, columns, row_height, rows, scroll_value,
                           viewport_timer, genVars>>
       ELSE /\ columns' = LayoutColumns(viewport_width, thumbnail_size)
            /\ row_height' = thumbnail_size + 40
            /\ rows' = LayoutRows(Len(new_photos), columns')
            /\ scroll_value' = Min(scroll_value, ScrollMaximum(rows', row_height', viewport_height))
            /\ viewport_timer' = (viewport_timer \/ scroll_value' # scroll_value)
            /\ ApplyUpdate(UpdateVisibleItems(new_photos, <<>>, visible_range, columns',
                                              row_height', rows', scroll_value',
                                              viewport_height, thumbnail_size, max_thumbnails),
                           thumbnail_size)
    /\ UNCHANGED <<thumbnail_size, max_thumbnails, viewport_width, viewport_height>>

\* set_photos
SetPhotos(new_photos) ==
    /\ pc = "idle"
    /\ SetPhotosEffect(new_photos)
    /\ UNCHANGED <<envVars, scanVars, dbVars>>

\* The user moves the scroll bar: on_scroll restarts the viewport timer.
OnScroll(value) ==
    /\ pc = "idle"
    /\ photos # <<>>
    /\ value # scroll_value
    /\ value \in ScrollPositions(ScrollMaximum(rows, row_height, viewport_height))
    /\ scroll_value' = value
    /\ viewport_timer' = TRUE
    /\ UNCHANGED <<photos, thumbnail_widgets, visible_range, thumbnail_size, columns,
                   row_height, rows, max_thumbnails, viewport_width, viewport_height>>
    /\ UNCHANGED <<genVars, envVars, scanVars, dbVars>>

\* The viewport timer fires: update_visible_items.
ViewportTimeout ==
    /\ pc = "idle"
    /\ viewport_timer
    /\ viewport_timer' = FALSE
    /\ ApplyUpdate(UpdateVisibleItems(photos, thumbnail_widgets, visible_range, columns,
                                      row_height, rows, scroll_value, viewport_height,
                                      thumbnail_size, max_thumbnails), thumbnail_size)
    /\ UNCHANGED <<photos, thumbnail_size, columns, row_height, rows, max_thumbnails,
                   scroll_value, viewport_width, viewport_height>>
    /\ UNCHANGED <<envVars, scanVars, dbVars>>

\* resizeEvent, the viewport having taken its new size.
ResizeEvent(width, height) ==
    /\ pc = "idle"
    /\ <<width, height>> # <<viewport_width, viewport_height>>
    /\ viewport_width' = width
    /\ viewport_height' = height
    /\ IF photos = <<>>
       THEN UNCHANGED <<thumbnail_widgets, visible_range, columns, row_height, rows,
                        scroll_value, viewport_timer, genVars>>
       ELSE /\ columns' = LayoutColumns(width, thumbnail_size)
            /\ row_height' = thumbnail_size + 40
            /\ rows' = LayoutRows(Len(photos), columns')
            /\ scroll_value' = Min(scroll_value, ScrollMaximum(rows', row_height', height))
            /\ viewport_timer' = (viewport_timer \/ scroll_value' # scroll_value)
            /\ IF columns' # columns
               THEN ApplyUpdate(UpdateVisibleItems(photos, <<>>, visible_range, columns',
                                                   row_height', rows', scroll_value', height,
                                                   thumbnail_size, max_thumbnails),
                                thumbnail_size)
               ELSE UNCHANGED <<thumbnail_widgets, visible_range, genVars>>
    /\ UNCHANGED <<photos, thumbnail_size, max_thumbnails>>
    /\ UNCHANGED <<envVars, scanVars, dbVars>>

\* set_thumbnail_size
SetThumbnailSize(size) ==
    /\ pc = "idle"
    /\ thumbnail_size' = size
    /\ row_height' = size + 40
    /\ IF photos = <<>>
       THEN UNCHANGED <<thumbnail_widgets, visible_range, columns, rows, scroll_value,
                        viewport_timer, genVars>>
       ELSE /\ columns' = LayoutColumns(viewport_width, size)
            /\ rows' = LayoutRows(Len(photos), columns')
            /\ scroll_value' = Min(scroll_value, ScrollMaximum(rows', row_height', viewport_height))
            /\ viewport_timer' = (viewport_timer \/ scroll_value' # scroll_value)
            /\ ApplyUpdate(UpdateVisibleItems(photos, <<>>, visible_range, columns',
                                              row_height', rows', scroll_value',
                                              viewport_height, size, max_thumbnails), size)
    /\ UNCHANGED <<photos, max_thumbnails, viewport_width, viewport_height>>
    /\ UNCHANGED <<envVars, scanVars, dbVars>>

---------------------------------------------------------------------------
\* PhotoScanner: the directory trees

\* The photo directories: each a sequence of directories in os.walk order, a
\* directory being its name and the files it lists.  A directory named with a
\* leading '.' is pruned from the walk by `dirs[:] = ...`.
ValidRoots == {"photos", "album"}
InvalidRoots == {"", "gone"}
HiddenDirs == {".trash"}

\* The directories os.walk visits top-down, each with the name of its parent
\* ("" for the root of the walk) and its files.
Tree(root) ==
    IF root = "photos"
    THEN << [name |-> "photos", parent |-> "", files |-> <<"a.jpg", "c.txt">>],
            [name |-> ".trash", parent |-> "photos", files |-> <<"raw-bytes.jpg">>],
            [name |-> "old", parent |-> ".trash", files |-> <<"old.jpg">>],
            [name |-> "clips", parent |-> "photos", files |-> <<"b.mp4">>] >>
    ELSE << [name |-> "album", parent |-> "", files |-> <<"d.jpg">>] >>

\* A faulty variant of StartsWithDot: no directory is taken to be hidden.
NeverStartsWithDot(name) == FALSE

\* d.startswith('.')
StartsWithDot(name) == name \in HiddenDirs

RECURSIVE Pruned(_, _)
\* `dirs[:] = [d for d in dirs if not d.startswith('.')]`: os.walk does not
\* descend into a directory removed from dirs, so a directory is pruned when
\* it or a directory above it, below the root, is hidden.
Pruned(tree, name) ==
    LET dir == tree[CHOOSE i \in 1..Len(tree) : tree[i].name = name] IN
    IF dir.parent = "" THEN FALSE
    ELSE StartsWithDot(name) \/ Pruned(tree, dir.parent)

RECURSIVE WalkDirs(_, _)
WalkDirs(tree, dirs) ==
    IF dirs = <<>> THEN <<>>
    ELSE IF Pruned(tree, Head(dirs).name) THEN WalkDirs(tree, Tail(dirs))
         ELSE Head(dirs).files \o WalkDirs(tree, Tail(dirs))

\* The files os.walk hands to the loops of _count_files and _scan_directory,
\* in order, for the directories of a tree.
WalkFiles(tree) == WalkDirs(tree, tree)

\* `ext in all_formats`
Matches(file) == Extension(file) \in supported_formats \cup video_formats

\* What _extract_photo_info can do for a file:
\*   "vanished"      os.path.exists is False (line 162), the file having been
\*                   removed before or after the walk listed it: None, no event
\*   "extracted"     a PhotoInfo with the image's dimensions
\*   "undimensioned" Image.open or the EXIF reading raises (lines 210-213, every
\*                   video among others): a PhotoInfo with width = height = 0
\*   "failed"        an exception reaches line 232 (os.stat on a file that is
\*                   gone or unreadable by then): error_occurred, None
ExtractOutcomes(file) ==
    {"vanished"} \cup
    (IF ~FileOf(file).exists THEN {}
     ELSE {"undimensioned", "failed"} \cup
          (IF Extension(file) \in supported_formats THEN {"extracted"} ELSE {}))

\* The scanner's signals.  `type` tells the error_occurred emissions apart by
\* the place that emits them: "invalid_root" (line 60), "extract_error" (line
\* 233), "walk_error" (line 151), "fatal" (line 87).
StartedEvent(root) == [type |-> "started", path |-> root, current |-> 0, total |-> 0]
ProgressEvent(current, total) ==
    [type |-> "progress", path |-> "", current |-> current, total |-> total]
\* photo_found; `current` is 1 when the PhotoInfo has the image's dimensions.
FoundEvent(file, outcome) ==
    [type |-> "photo_found", path |-> file,
     current |-> IF outcome = "extracted" THEN 1 ELSE 0, total |-> 0]
ScanErrorEvent(type, path) == [type |-> type, path |-> path, current |-> 0, total |-> 0]
FinishedEvent(count) == [type |-> "finished", path |-> "", current |-> count, total |-> 0]

NoError == "<none>"

\* A faulty variant: the progress reports how many files remain.
FileEventsCountingDown(file, outcome, current, total) ==
    <<ProgressEvent(total - current, total)>> \o
    (IF ~Matches(file) THEN <<>>
     ELSE CASE outcome \in {"extracted", "undimensioned"} -> <<FoundEvent(file, outcome)>>
            [] outcome = "failed" -> <<ScanErrorEvent("extract_error", file)>>
            [] OTHER -> <<>>)

\* The signals emitted for one file of the second pass: lines 136-148.
FileEvents(file, outcome, current, total) ==
    <<ProgressEvent(current, total)>> \o
    (IF ~Matches(file) THEN <<>>
     ELSE CASE outcome \in {"extracted", "undimensioned"} -> <<FoundEvent(file, outcome)>>
            [] outcome = "failed" -> <<ScanErrorEvent("extract_error", file)>>
            [] OTHER -> <<>>)

---------------------------------------------------------------------------
\* PhotoDatabase

\* PhotoInfo.creation_time of the files, in file-system timestamp units.
CreationTime(file) ==
    CASE file = "a.jpg" -> 2
      [] file = "b.mp4" -> 1
      [] file = "d.jpg" -> 1
      [] OTHER -> 0

RECURSIVE InsertByCreation(_, _)
\* x put behind the items of a sorted sequence that are at least as new.
InsertByCreation(x, sorted) ==
    IF sorted = <<>> THEN <<x>>
    ELSE IF CreationTime(Head(sorted)) >= CreationTime(x)
         THEN <<Head(sorted)>> \o InsertByCreation(x, Tail(sorted))
         ELSE <<x>> \o sorted

RECURSIVE SortByCreation(_, _)
SortByCreation(items, sorted) ==
    IF items = <<>> THEN sorted
    ELSE SortByCreation(Tail(items), InsertByCreation(Head(items), sorted))

\* A faulty variant: the master list as it is.
GetAllPhotosUnsorted(database) == database

\* get_all_photos: sorted(self.photos, key=creation_time, reverse=True), a
\* stable sort.
GetAllPhotos(database) == SortByCreation(database, <<>>)

\* The items handed to add_photo, named by their file_path, and their
\* PhotoInfo.folder_path and PhotoInfo.file_hash ("" when hashing failed).
\* d.jpg is a copy of a.jpg.
DbItems == {"a.jpg", "b.mp4", "d.jpg", "e.jpg"}

FolderPath(file) ==
    CASE file = "b.mp4" -> "photos/clips"
      [] file = "d.jpg" -> "album"
      [] OTHER -> "photos"

FileHash(file) ==
    CASE file \in {"a.jpg", "d.jpg"} -> "h1"
      [] file = "e.jpg" -> "h2"
      [] OTHER -> ""

Folders == {FolderPath(file) : file \in DbItems} \cup {"empty"}

\* A dict without keys.
EmptyDict == [k \in {} |-> <<>>]

\* dict[key] = value
SetKey(dict, key, value) ==
    [k \in DOMAIN dict \cup {key} |-> IF k = key THEN value ELSE dict[k]]

\* What a caller holds after a read: the operation and its argument, the
\* master list it was computed from, the list (or, for find_duplicates, the
\* list of groups) the caller holds, and whether that list is an object the
\* database still holds in photos_by_folder.
NoRead ==
    [op |-> "none", arg |-> "", source |-> <<>>, result |-> <<>>, groups |-> <<>>,
     live |-> FALSE]

\* A faulty variant: only the master list is emptied.
ClearMasterOnly ==
    /\ photo_database' = <<>>
    /\ UNCHANGED <<photos_by_folder, photos_by_hash, db_read>>

\* clear.  The lists of photos_by_folder are dropped, not emptied.
ClearEffect ==
    /\ photo_database' = <<>>
    /\ photos_by_folder' = EmptyDict
    /\ photos_by_hash' = EmptyDict
    /\ db_read' = [db_read EXCEPT !.live = FALSE]

\* add_photo.  The list of the item's folder is appended to in place.
AddPhotoEffect(item) ==
    /\ photo_database' = Append(photo_database, item)
    /\ photos_by_folder' =
          SetKey(photos_by_folder, FolderPath(item),
                 Append(IF FolderPath(item) \in DOMAIN photos_by_folder
                        THEN photos_by_folder[FolderPath(item)] ELSE <<>>, item))
    /\ photos_by_hash' = IF FileHash(item) # ""
                         THEN SetKey(photos_by_hash, FileHash(item), item)
                         ELSE photos_by_hash
    /\ db_read' = IF db_read.live /\ db_read.arg = FolderPath(item)
                  THEN [db_read EXCEPT !.result = Append(@, item)]
                  ELSE db_read

RECURSIVE GroupByHash(_, _)
\* hash_groups of find_duplicates, in the order of the keys' insertion.
GroupByHash(items, groups) ==
    IF items = <<>> THEN groups
    ELSE LET item == Head(items)
             at == {i \in 1..Len(groups) : groups[i].hash = FileHash(item)}
         IN GroupByHash(Tail(items),
                IF FileHash(item) = "" THEN groups
                ELSE IF at = {} THEN Append(groups, [hash |-> FileHash(item), items |-> <<item>>])
                ELSE [i \in 1..Len(groups) |->
                        IF i \in at THEN [groups[i] EXCEPT !.items = Append(@, item)]
                        ELSE groups[i]])

\* A faulty variant: every group is returned.
FindDuplicatesWithSingles(database) ==
    LET all == GroupByHash(database, <<>>)
    IN [i \in 1..Len(all) |-> all[i].items]

\* find_duplicates
FindDuplicates(database) ==
    LET more == SelectSeq(GroupByHash(database, <<>>), LAMBDA g : Len(g.items) > 1)
    IN [i \in 1..Len(more) |-> more[i].items]

\* The operations of PhotoDatabase, called by any thread under the mutex.
AddPhoto(item) ==
    /\ Len(photo_database) < MaxDbItems
    /\ AddPhotoEffect(item)
    /\ UNCHANGED <<genVars, envVars, galVars>>
    /\ UNCHANGED <<root_path, scan_should_stop, photos_found, total_files, scan_pc,
                   walk_root, walk_pos, count_total, processed, found_load, scan_signals,
                   scan_events, scan_call_error, cancel_at, scan_calls>>

Clear ==
    /\ ClearEffect
    /\ UNCHANGED <<genVars, envVars, galVars>>
    /\ UNCHANGED <<root_path, scan_should_stop, photos_found, total_files, scan_pc,
                   walk_root, walk_pos, count_total, processed, found_load, scan_signals,
                   scan_events, scan_call_error, cancel_at, scan_calls>>

GetAllPhotosCall ==
    /\ db_read' = [op |-> "get_all_photos", arg |-> "", source |-> photo_database,
                   result |-> GetAllPhotos(photo_database), groups |-> <<>>,
                   live |-> FALSE]
    /\ UNCHANGED <<photos_by_folder, photos_by_hash>>
    /\ UNCHANGED <<genVars, envVars, galVars, scanVars>>

\* get_photos_by_folder: self.photos_by_folder.get(folder_path, []), the list
\* of the dict itself when the folder is a key.
GetPhotosByFolder(folder_path) ==
    /\ db_read' = [op |-> "get_photos_by_folder", arg |-> folder_path,
                   source |-> photo_database,
                   result |-> IF folder_path \in DOMAIN photos_by_folder
                              THEN photos_by_folder[folder_path] ELSE <<>>,
                   groups |-> <<>>,
                   live |-> folder_path \in DOMAIN photos_by_folder]
    /\ UNCHANGED <<photos_by_folder, photos_by_hash>>
    /\ UNCHANGED <<genVars, envVars, galVars, scanVars>>

FindDuplicatesCall ==
    /\ db_read' = [op |-> "find_duplicates", arg |-> "", source |-> photo_database,
                   result |-> <<>>, groups |-> FindDuplicates(photo_database),
                   live |-> FALSE]
    /\ UNCHANGED <<photos_by_folder, photos_by_hash>>
    /\ UNCHANGED <<genVars, envVars, galVars, scanVars>>

---------------------------------------------------------------------------
\* PhotoScanner: the commands, issued on the main thread

\* A faulty variant: the attributes are set before the path is validated.
ScanPhotosResetFirst(root, exists) ==
    /\ root_path' = root
    /\ scan_should_stop' = FALSE
    /\ photos_found' = 0
    /\ IF root = "" \/ ~exists
       THEN /\ scan_call_error' = root
            /\ UNCHANGED <<scan_pc, scan_events, cancel_at>>
       ELSE /\ scan_call_error' = NoError
            /\ IF scan_pc = "stopped"
               THEN /\ scan_pc' = "started"
                    /\ scan_events' = <<>>
                    /\ cancel_at' = "none"
               ELSE UNCHANGED <<scan_pc, scan_events, cancel_at>>

\* scan_photos(root_path), `exists` being what os.path.exists answers.
\* QThread.start() does nothing when the thread is running.
ScanPhotosEffect(root, exists) ==
    IF root = "" \/ ~exists
    THEN /\ scan_call_error' = root
         /\ UNCHANGED <<root_path, scan_should_stop, photos_found, scan_pc, scan_events,
                        cancel_at>>
    ELSE /\ scan_call_error' = NoError
         /\ root_path' = root
         /\ scan_should_stop' = FALSE
         /\ photos_found' = 0
         /\ IF scan_pc = "stopped"
            THEN /\ scan_pc' = "started"
                 /\ scan_events' = <<>>
                 /\ cancel_at' = "none"
            ELSE UNCHANGED <<scan_pc, scan_events, cancel_at>>

ScanPhotos(root) ==
    /\ pc = "idle"
    /\ ScanPhotosEffect(root, root \in ValidRoots)
    /\ UNCHANGED <<total_files, walk_root, walk_pos, count_total, processed, found_load,
                   scan_signals, photo_database>>
    /\ UNCHANGED <<genVars, envVars, galVars, scan_calls, dbVars>>

\* MainWindow.start_scanning with a configured photo path that exists.
StartScanning(photo_path) ==
    /\ pc = "idle"
    /\ photo_path \in ValidRoots
    /\ scan_calls < MaxScanCalls
    /\ scan_calls' = scan_calls + 1
    /\ ClearEffect
    /\ ScanPhotosEffect(photo_path, TRUE)
    /\ UNCHANGED <<total_files, walk_root, walk_pos, count_total, processed, found_load,
                   scan_signals>>
    /\ UNCHANGED <<genVars, envVars, galVars>>

\* A faulty variant: cancelling empties the database.
CancelScanningWithRollback ==
    /\ pc = "idle"
    /\ scan_pc # "stopped"
    /\ scan_should_stop' = TRUE
    /\ cancel_at' = scan_pc
    /\ photo_database' = <<>>
    /\ UNCHANGED <<root_path, photos_found, total_files, scan_pc, walk_root, walk_pos,
                   count_total, processed, found_load, scan_signals, scan_events,
                   scan_call_error>>
    /\ UNCHANGED <<genVars, envVars, galVars, scan_calls, dbVars>>

\* MainWindow.cancel_scanning: stop_scanning if the thread is running.
CancelScanning ==
    /\ pc = "idle"
    /\ scan_pc # "stopped"
    /\ scan_should_stop' = TRUE
    /\ cancel_at' = scan_pc
    /\ UNCHANGED <<root_path, photos_found, total_files, scan_pc, walk_root, walk_pos,
                   count_total, processed, found_load, scan_signals, photo_database,
                   scan_events, scan_call_error>>
    /\ UNCHANGED <<genVars, envVars, galVars, scan_calls, dbVars>>

---------------------------------------------------------------------------
\* PhotoScanner: the thread, one step per loop iteration

\* The signals whose handlers in MainWindow change the photo database or the
\* gallery; the handlers of the others only update the progress display.
Handled(event) == event.type \in {"photo_found", "finished"}

\* Signals emitted by the thread: queued for the main thread.
Emit(events) ==
    /\ scan_events' = scan_events \o events
    /\ scan_signals' = scan_signals \o SelectSeq(events, Handled)

\* run: scanning_started, then _count_files(self.root_path) is entered.
RunStart ==
    /\ scan_pc = "started"
    /\ Emit(<<StartedEvent(root_path)>>)
    /\ scan_pc' = "count"
    /\ walk_root' = root_path
    /\ walk_pos' = 0
    /\ count_total' = 0
    /\ UNCHANGED <<root_path, scan_should_stop, photos_found, total_files, processed,
                   found_load, photo_database, scan_call_error, cancel_at>>
    /\ UNCHANGED <<genVars, envVars, galVars, scan_calls, dbVars>>

\* run: an exception raised outside the passes' own try blocks (the format
\* sets of lines 92-94) reaches line 86.
RunRaises ==
    /\ scan_pc = "started"
    /\ Emit(<<StartedEvent(root_path), ScanErrorEvent("fatal", root_path)>>)
    /\ scan_pc' = "stopped"
    /\ UNCHANGED <<root_path, scan_should_stop, photos_found, total_files, walk_root,
                   walk_pos, count_total, processed, found_load, photo_database,
                   scan_call_error, cancel_at>>
    /\ UNCHANGED <<genVars, envVars, galVars, scan_calls, dbVars>>

\* _count_files: one iteration of the loop over the files, or its end; the
\* total is stored and _scan_directory(self.root_path) is entered.
CountFile ==
    /\ scan_pc = "count"
    /\ LET walk == WalkFiles(Tree(walk_root)) IN
       IF walk_pos < Len(walk) /\ ~scan_should_stop
       THEN /\ count_total' = count_total + (IF Matches(walk[walk_pos + 1]) THEN 1 ELSE 0)
            /\ walk_pos' = walk_pos + 1
            /\ UNCHANGED <<total_files, scan_pc, walk_root, processed>>
       ELSE /\ total_files' = count_total
            /\ scan_pc' = "scan"
            /\ walk_root' = root_path
            /\ walk_pos' = 0
            /\ processed' = 0
            /\ UNCHANGED count_total
    /\ UNCHANGED <<root_path, scan_should_stop, photos_found, found_load, scan_signals,
                   photo_database, scan_events, scan_call_error, cancel_at>>
    /\ UNCHANGED <<genVars, envVars, galVars, scan_calls, dbVars>>

\* A faulty variant: a failed extraction ends the walk.
ScanFileAbortingOnFailure ==
    /\ scan_pc = "scan"
    /\ LET walk == WalkFiles(Tree(walk_root)) IN
       IF walk_pos < Len(walk) /\ ~scan_should_stop
       THEN \E outcome \in ExtractOutcomes(walk[walk_pos + 1]) :
               LET file == walk[walk_pos + 1]
                   found == Matches(file) /\ outcome \in {"extracted", "undimensioned"}
               IN /\ processed' = processed + 1
                  /\ walk_pos' = walk_pos + 1
                  /\ Emit(FileEvents(file, outcome, processed + 1, total_files))
                  /\ found_load' = IF found THEN photos_found ELSE found_load
                  /\ scan_pc' = IF found THEN "store"
                                ELSE IF Matches(file) /\ outcome = "failed" THEN "finish"
                                ELSE "scan"
       ELSE /\ scan_pc' = "finish"
            /\ UNCHANGED <<processed, walk_pos, found_load, scan_events, scan_signals>>
    /\ UNCHANGED <<root_path, scan_should_stop, photos_found, total_files, walk_root,
                   count_total, photo_database, scan_call_error, cancel_at>>
    /\ UNCHANGED <<genVars, envVars, galVars, scan_calls, dbVars>>

\* _scan_directory: one iteration of the loops of lines 122-148, or their end.
\* A break of the inner loop is followed by the break of the outer one.
ScanFile ==
    /\ scan_pc = "scan"
    /\ LET walk == WalkFiles(Tree(walk_root)) IN
       IF walk_pos < Len(walk) /\ ~scan_should_stop
       THEN \E outcome \in ExtractOutcomes(walk[walk_pos + 1]) :
               LET file == walk[walk_pos + 1]
                   found == Matches(file) /\ outcome \in {"extracted", "undimensioned"}
               IN /\ processed' = processed + 1
                  /\ walk_pos' = walk_pos + 1
                  /\ Emit(FileEvents(file, outcome, processed + 1, total_files))
                  /\ found_load' = IF found THEN photos_found ELSE found_load
                  /\ scan_pc' = IF found THEN "store" ELSE "scan"
       ELSE /\ scan_pc' = "finish"
            /\ UNCHANGED <<processed, walk_pos, found_load, scan_events, scan_signals>>
    /\ UNCHANGED <<root_path, scan_should_stop, photos_found, total_files, walk_root,
                   count_total, photo_database, scan_call_error, cancel_at>>
    /\ UNCHANGED <<genVars, envVars, galVars, scan_calls, dbVars>>

\* `self.photos_found += 1` stores what it computed from the value it read.
StoreFound ==
    /\ scan_pc = "store"
    /\ photos_found' = found_load + 1
    /\ scan_pc' = "scan"
    /\ UNCHANGED <<root_path, scan_should_stop, total_files, walk_root, walk_pos,
                   count_total, processed, found_load, scan_signals, photo_database,
                   scan_events, scan_call_error, cancel_at>>
    /\ UNCHANGED <<genVars, envVars, galVars, scan_calls, dbVars>>

\* An exception inside the walk of _scan_directory reaches line 150.
WalkRaises ==
    /\ scan_pc = "scan"
    /\ Emit(<<ScanErrorEvent("walk_error", walk_root)>>)
    /\ scan_pc' = "finish"
    /\ UNCHANGED <<root_path, scan_should_stop, photos_found, total_files, walk_root,
                   walk_pos, count_total, processed, found_load, photo_database,
                   scan_call_error, cancel_at>>
    /\ UNCHANGED <<genVars, envVars, galVars, scan_calls, dbVars>>

\* The root disappears: os.walk swallows the listing errors and yields nothing
\* more.
RootVanishes ==
    /\ scan_pc \in {"count", "scan"}
    /\ walk_pos < Len(WalkFiles(Tree(walk_root)))
    /\ walk_pos' = Len(WalkFiles(Tree(walk_root)))
    /\ UNCHANGED <<root_path, scan_should_stop, photos_found, total_files, scan_pc,
                   walk_root, count_total, processed, found_load, scan_signals,
                   photo_database, scan_events, scan_call_error, cancel_at>>
    /\ UNCHANGED <<genVars, envVars, galVars, scan_calls, dbVars>>

\* A faulty variant: scanning_finished is emitted and the walk goes on.
RunFinishThenScan ==
    /\ scan_pc = "finish"
    /\ Emit(<<FinishedEvent(photos_found)>>)
    /\ scan_pc' = "scan"
    /\ UNCHANGED <<root_path, scan_should_stop, photos_found, total_files, walk_root,
                   walk_pos, count_total, processed, found_load, photo_database,
                   scan_call_error, cancel_at>>
    /\ UNCHANGED <<genVars, envVars, galVars, scan_calls, dbVars>>

\* run: line 84, and the thread ends.
RunFinish ==
    /\ scan_pc = "finish"
    /\ Emit(<<FinishedEvent(photos_found)>>)
    /\ scan_pc' = "stopped"
    /\ UNCHANGED <<root_path, scan_should_stop, photos_found, total_files, walk_root,
                   walk_pos, count_total, processed, found_load, photo_database,
                   scan_call_error, cancel_at>>
    /\ UNCHANGED <<genVars, envVars, galVars, scan_calls, dbVars>>

\* The main thread handles the scanner's oldest queued signal: on_photo_found,
\* on_scanning_finished (the gallery tab's set_photos), or a handler that
\* changes nothing modelled here.
DeliverScanSignal ==
    /\ pc = "idle"
    /\ scan_signals # <<>>
    /\ scan_signals' = Tail(scan_signals)
    /\ IF Head(scan_signals).type = "photo_found"
       THEN AddPhotoEffect(Head(scan_signals).path)
       ELSE UNCHANGED <<photo_database, dbVars>>
    /\ IF Head(scan_signals).type = "finished"
       THEN SetPhotosEffect(GetAllPhotos(photo_database))
       ELSE UNCHANGED <<genVars, galVars>>
    /\ UNCHANGED <<root_path, scan_should_stop, photos_found, total_files, scan_pc,
                   walk_root, walk_pos, count_total, processed, found_load, scan_events,
                   scan_call_error, cancel_at>>
    /\ UNCHANGED <<envVars, scan_calls>>

---------------------------------------------------------------------------
\* Initial states

\* ThumbnailGenerator.__init__
InitGenerator ==
    /\ request_queue = <<>>
    /\ should_stop = FALSE
    /\ processing = FALSE
    /\ timer_active = FALSE
    /\ batch = <<>>
    /\ pc = "idle"
    /\ last_request = NoRequest
    /\ last_outcome = "none"
    /\ emitted = <<>>
    /\ last_call = NoCall

\* PhotoScanner.__init__ and PhotoDatabase.__init__; root_path is not yet an
\* attribute.
InitScanner ==
    /\ root_path = "<unset>"
    /\ scan_should_stop = FALSE
    /\ photos_found = 0
    /\ total_files = 0
    /\ scan_pc = "stopped"
    /\ walk_root = "<unset>"
    /\ walk_pos = 0
    /\ count_total = 0
    /\ processed = 0
    /\ found_load = 0
    /\ scan_signals = <<>>
    /\ photo_database = <<>>
    /\ scan_events = <<>>
    /\ scan_call_error = NoError
    /\ cancel_at = "none"
    /\ scan_calls = 0
    /\ photos_by_folder = EmptyDict
    /\ photos_by_hash = EmptyDict
    /\ db_read = NoRead

\* VirtualScrollGallery.__init__, with the window at one of the viewport sizes
\* and the 'max_thumbnails' setting at one of the given values.
InitGallery(limits, widths, heights) ==
    /\ photos = <<>>
    /\ thumbnail_widgets = <<>>
    /\ visible_range = <<0, 0>>
    /\ thumbnail_size = DefaultThumbnailSize
    /\ columns = 5
    /\ row_height = DefaultThumbnailSize + 40
    /\ rows = 0
    /\ max_thumbnails \in limits
    /\ scroll_value = 0
    /\ viewport_timer = FALSE
    /\ viewport_width \in widths
    /\ viewport_height \in heights

\* The disk: every source file exists; those in `paths` have a modification
\* time in mtimes (the clock starts at 0: a later time is a file dated in the
\* future), the others 0; the cache directory is empty.
InitDisk(paths, mtimes) ==
    /\ cache_enabled \in BOOLEAN
    /\ cache = [k \in {} |-> None]
    /\ files \in [FilePaths -> [exists : {TRUE}, mtime : mtimes \cup {0}, ver : {0}]]
    /\ \A file_path \in FilePaths :
          files[file_path].mtime # 0 => file_path \in paths /\ files[file_path].mtime \in mtimes
    /\ now = 0

---------------------------------------------------------------------------
\* Specifications

\* The generator under single requests, cancellation, ticks and a changing disk.
Init ==
    /\ InitGenerator
    /\ InitScanner
    /\ InitGallery({DefaultMaxThumbnails}, {450}, {600})
    /\ InitDisk({}, {0})

Next ==
    \/ \E file_path \in GenPaths : RequestThumbnail(file_path, DefaultThumbnailSize)
    \/ StopGeneration
    \/ ClearQueue
    \/ ProcessNextBatch
    \/ ProcessRequest
    \/ BatchDone
    \/ SetCacheEnabled
    \/ AdvanceClock
    \/ \E file_path \in DeletedPaths : DeleteFile(file_path)

Spec == Init /\ [][Next]_vars

\* The request queue under single and batch requests, caching switched off.
InitQueue == Init /\ ~cache_enabled

NextQueue ==
    \/ \E file_path \in QueuePaths, size \in Sizes : RequestThumbnail(file_path, size)
    \/ \E file_paths \in SeqsUpTo(QueuePaths, MaxBatchCall), size \in Sizes :
          RequestThumbnailsBatch(file_paths, size)
    \/ StopGeneration
    \/ ClearQueue
    \/ ProcessNextBatch
    \/ ProcessRequest
    \/ BatchDone

SpecQueue == InitQueue /\ [][NextQueue]_vars

\* The queue loaded by the gallery with more requests than one batch takes,
\* caching switched off.
NextBatches ==
    \/ \E size \in Sizes : RequestThumbnailsBatch(PhotoList(QueueLoad), size)
    \/ \E file_path \in QueuePaths : RequestThumbnail(file_path, DefaultThumbnailSize)
    \/ StopGeneration
    \/ ClearQueue
    \/ ProcessNextBatch
    \/ ProcessRequest
    \/ BatchDone

SpecBatches == InitQueue /\ [][NextBatches]_vars

\* Cancellation, between and inside batches, while the gallery shows two
\* photos in one column or none; caching switched off.
InitCancel ==
    /\ InitGenerator
    /\ InitScanner
    /\ InitGallery({DefaultMaxThumbnails}, {250}, {600})
    /\ InitDisk({}, {0})
    /\ ~cache_enabled

NextCancel ==
    \/ \E size \in Sizes : RequestThumbnailsBatch(PhotoList(QueueLoad), size)
    \/ \E new_photos \in {PhotoList(0), PhotoList(2)} : SetPhotos(new_photos)
    \/ StopGeneration
    \/ ClearQueue
    \/ StopGenerationInBatch
    \/ ClearQueueInBatch
    \/ ProcessNextBatch
    \/ ProcessRequest
    \/ BatchDone

SpecCancel == InitCancel /\ [][NextCancel]_vars

\* The disk cache: files dated now or in the future, rewritten and deleted
\* while thumbnails are requested.
InitCache ==
    /\ InitGenerator
    /\ InitScanner
    /\ InitGallery({DefaultMaxThumbnails}, {450}, {600})
    /\ InitDisk({"a.jpg"}, 0..MaxTime)

NextCache ==
    \/ \E request \in CacheRequests : RequestThumbnail(request[1], request[2])
    \/ ProcessNextBatch
    \/ ProcessRequest
    \/ BatchDone
    \/ SetCacheEnabled
    \/ AdvanceClock
    \/ TouchFile("a.jpg")
    \/ DeleteFile("a.jpg")

SpecCache == InitCache /\ [][NextCache]_vars

\* The generator left to run: no stop_generation, no clear_queue, and the
\* process timer keeps firing while it is active.
NextLive ==
    \/ \E file_path \in GenPaths : RequestThumbnail(file_path, DefaultThumbnailSize)
    \/ ProcessNextBatch
    \/ ProcessRequest
    \/ BatchDone
    \/ SetCacheEnabled
    \/ \E file_path \in DeletedPaths : DeleteFile(file_path)

SpecLive ==
    /\ Init
    /\ [][NextLive]_vars
    /\ WF_vars(ProcessNextBatch)
    /\ WF_vars(ProcessRequest)
    /\ WF_vars(BatchDone)

\* The generator left to run with stop_generation called at most once and
\* clear_queue never: the process timer keeps firing while it is active.
NextStopped ==
    \/ \E file_path \in GenPaths : RequestThumbnail(file_path, DefaultThumbnailSize)
    \/ ~should_stop /\ StopGeneration
    \/ ProcessNextBatch
    \/ ProcessRequest
    \/ BatchDone
    \/ SetCacheEnabled
    \/ \E file_path \in DeletedPaths : DeleteFile(file_path)

SpecStopped ==
    /\ Init
    /\ [][NextStopped]_vars
    /\ WF_vars(ProcessNextBatch)
    /\ WF_vars(ProcessRequest)
    /\ WF_vars(BatchDone)

\* The gallery under set_photos, scrolling, resizing and size changes.
InitGalleryOnly ==
    /\ InitGenerator
    /\ InitScanner
    /\ InitGallery(MaxThumbnailsChoices, ViewportWidths, ViewportHeights)
    /\ InitDisk({}, {0})
    /\ cache_enabled

QueueDrained == request_queue = <<>>

NextGallery ==
    \/ \E new_photos \in PhotoLists : QueueDrained /\ SetPhotos(new_photos)
    \/ \E value \in ScrollPositions(ScrollMaximum(rows, row_height, viewport_height)) :
          QueueDrained /\ OnScroll(value)
    \/ QueueDrained /\ ViewportTimeout
    \/ \E width \in ViewportWidths, height \in ViewportHeights :
          QueueDrained /\ ResizeEvent(width, height)
    \/ \E size \in Sizes : QueueDrained /\ SetThumbnailSize(size)
    \/ ClearQueue

SpecGallery == InitGalleryOnly /\ [][NextGallery]_vars

\* The gallery and the generator together: the thumbnail size is changed and
\* photos are set while requests wait in the queue; caching switched off.
InitResize ==
    /\ InitGenerator
    /\ InitScanner
    /\ InitGallery({DefaultMaxThumbnails}, ViewportWidths, ViewportHeights)
    /\ InitDisk({}, {0})
    /\ ~cache_enabled

NextResize ==
    \/ \E new_photos \in PhotoLists : SetPhotos(new_photos)
    \/ \E size \in Sizes : SetThumbnailSize(size)
    \/ ProcessNextBatch
    \/ ProcessRequest
    \/ BatchDone

SpecResize == InitResize /\ [][NextResize]_vars

\* The gallery scrolled over a list longer than its buffered window: one
\* column, a viewport of two to three rows.
InitEviction ==
    /\ InitGenerator
    /\ InitScanner
    /\ InitGallery(MaxThumbnailsChoices, {250}, {200})
    /\ InitDisk({}, {0})
    /\ cache_enabled

NextEviction ==
    \/ \E new_photos \in {PhotoList(0), PhotoList(LongListLen)} :
          QueueDrained /\ SetPhotos(new_photos)
    \/ \E value \in ScrollPositions(ScrollMaximum(rows, row_height, viewport_height)) :
          QueueDrained /\ OnScroll(value)
    \/ QueueDrained /\ ViewportTimeout
    \/ ClearQueue

SpecEviction == InitEviction /\ [][NextEviction]_vars

\* The scanner thread, the commands that start and cancel it, and the main
\* thread handling its signals.
InitScan == Init /\ cache_enabled

NextScan ==
    \/ \E photo_path \in ValidRoots : StartScanning(photo_path)
    \/ \E root \in InvalidRoots : ScanPhotos(root)
    \/ CancelScanning
    \/ RunStart
    \/ RunRaises
    \/ CountFile
    \/ ScanFile
    \/ StoreFound
    \/ WalkRaises
    \/ RootVanishes
    \/ RunFinish
    \/ DeliverScanSignal

SpecScan == InitScan /\ [][NextScan]_vars

\* The photo database by itself: any sequence of its operations.
NextDatabase ==
    \/ \E item \in DbItems : AddPhoto(item)
    \/ Clear
    \/ GetAllPhotosCall
    \/ \E folder_path \in Folders : GetPhotosByFolder(folder_path)
    \/ FindDuplicatesCall

SpecDatabase == InitScan /\ [][NextDatabase]_vars

---------------------------------------------------------------------------
\* Properties.  last_request, last_outcome and emitted describe the request
\* the running batch handled last; a step with pc = "batch" that takes the
\* head off a non-empty batch is an iteration of the batch loop.

\* C1: after any gallery operation the number of thumbnail widgets is at most
\* max_thumbnails, also when the visible range holds more items than that.
WidgetsWithinLimit == Len(thumbnail_widgets) <= max_thumbnails

\* C2: a dequeued request causes at most one terminal event, so never both
\* error_occurred and thumbnail_ready.
AtMostOneTerminalEvent == Len(emitted) <= 1

MissingFileYieldsErrorEvent ==
    last_outcome = "missing" => emitted = <<ErrorEvent(last_request[1])>>

\* C4, as the code has it: a request whose source file is found missing by
\* _generate_thumbnail yields exactly one thumbnail_ready event, carrying the
\* error raster, and no error_occurred event.
MissingFileYieldsErrorRaster ==
    last_outcome = "missing" =>
        /\ Len(emitted) = 1
        /\ emitted[1].type = "ready"
        /\ emitted[1].path = last_request[1]
        /\ emitted[1].pixmap.kind = "error"

MissingFileHandled ==
    /\ last_outcome = "missing"
    /\ ~FileOf(last_request[1]).exists
    /\ emitted # <<>>

\* C5: when the cache has nothing and generation fails (file missing,
\* extension unsupported, image undecodable), the error raster made for the
\* requested size is emitted through thumbnail_ready as the only event, and
\* the batch loop goes on with the requests left in the batch.
FailureYieldsErrorRaster ==
    last_outcome \in {"missing", "unsupported", "undecodable"} =>
        /\ emitted = <<ReadyEvent(last_request[1], CreateErrorThumbnail(last_request[2]))>>
        /\ pc = "batch"
        /\ batch # <<>> => ENABLED ProcessRequest

FailureInsideBatch ==
    /\ last_outcome \in {"unsupported", "undecodable"}
    /\ emitted # <<>>
    /\ batch # <<>>

\* C6: the queue never holds two entries with the same path and size, also
\* when one batch call names a path twice.
NoDuplicateRequests ==
    \A i, j \in 1..Len(request_queue) : request_queue[i] = request_queue[j] => i = j

DuplicateDropped ==
    /\ Len(last_call.paths) = 2
    /\ last_call.paths[1] = last_call.paths[2]
    /\ Cardinality({i \in 1..Len(request_queue) :
                      request_queue[i] = <<last_call.paths[1], last_call.size>>}) = 1

\* C7: when a request call returns, every path it named is in the queue with
\* the size of that call, also when the path was pending with another size.
RequestedSizeQueued ==
    \A i \in 1..Len(last_call.paths) :
        <<last_call.paths[i], last_call.size>> \in Range(request_queue)

\* C8, as stated: with caching enabled, a request whose key has a loadable
\* cache entry written from the file's present contents is served from the
\* cache, whatever the entry's and the file's modification times.
UnmodifiedServedFromCache ==
    [][(/\ pc = "batch" /\ batch # <<>> /\ batch' = Tail(batch)
        /\ cache_enabled
        /\ GetCachePath(Head(batch)[1], Head(batch)[2]) \in DOMAIN cache
        /\ ~IsNull(cache[GetCachePath(Head(batch)[1], Head(batch)[2])].pixmap)
        /\ cache[GetCachePath(Head(batch)[1], Head(batch)[2])].ver = FileOf(Head(batch)[1]).ver
        /\ FileOf(Head(batch)[1]).exists)
       => last_outcome' = "cache_hit"]_vars

\* C8, as the code has it: such a request is served from the cache, with the
\* entry's raster, provided the entry's modification time is strictly later
\* than the file's.
NewerEntryServedFromCache ==
    [][(/\ pc = "batch" /\ batch # <<>> /\ batch' = Tail(batch)
        /\ cache_enabled
        /\ GetCachePath(Head(batch)[1], Head(batch)[2]) \in DOMAIN cache
        /\ ~IsNull(cache[GetCachePath(Head(batch)[1], Head(batch)[2])].pixmap)
        /\ cache[GetCachePath(Head(batch)[1], Head(batch)[2])].ver = FileOf(Head(batch)[1]).ver
        /\ FileOf(Head(batch)[1]).exists
        /\ cache[GetCachePath(Head(batch)[1], Head(batch)[2])].mtime
              > FileOf(Head(batch)[1]).mtime)
       => /\ last_outcome' = "cache_hit"
          /\ emitted' = <<ReadyEvent(Head(batch)[1],
                                     cache[GetCachePath(Head(batch)[1], Head(batch)[2])].pixmap)>>]_vars

ServedFromCache ==
    /\ last_outcome = "cache_hit"
    /\ Len(emitted) = 1
    /\ emitted[1].pixmap.kind = "image"
    /\ emitted[1].pixmap.ver = FileOf(last_request[1]).ver

CacheHitOnlyWhenValid ==
    [][(/\ pc = "batch" /\ batch # <<>> /\ batch' = Tail(batch)
        /\ last_outcome' = "cache_hit")
       => /\ cache_enabled
          /\ GetCachePath(Head(batch)[1], Head(batch)[2]) \in DOMAIN cache
          /\ FileOf(Head(batch)[1]).exists
          /\ cache[GetCachePath(Head(batch)[1], Head(batch)[2])].mtime
                > FileOf(Head(batch)[1]).mtime
          /\ emitted' = <<ReadyEvent(Head(batch)[1],
                                     cache[GetCachePath(Head(batch)[1], Head(batch)[2])].pixmap)>>]_vars

CacheHitBesideOtherSize ==
    /\ last_outcome = "cache_hit"
    /\ cache_enabled
    /\ GetCachePath(last_request[1], 100) \in DOMAIN cache
    /\ GetCachePath(last_request[1], 180) \in DOMAIN cache
    /\ emitted # <<>>

---------------------------------------------------------------------------
\* Properties of the scanner.  scan_events holds the signals of the latest run,
\* in the order of their emission.

EventsOfType(events, type) == SelectSeq(events, LAMBDA e : e.type = type)
ProgressEvents == EventsOfType(scan_events, "progress")
FoundEvents == EventsOfType(scan_events, "photo_found")
FinishedEvents == EventsOfType(scan_events, "finished")

\* C11: within one scan run the `current` values of successive
\* progress_updated signals never decrease.
ProgressNeverDecreases ==
    \A i \in 1..Len(ProgressEvents) : \A j \in i..Len(ProgressEvents) :
        ProgressEvents[i].current <= ProgressEvents[j].current

\* A run that has reported its progress three times.
ProgressReportedThrice ==
    /\ Len(ProgressEvents) = 3
    /\ ProgressEvents[3].current > ProgressEvents[1].current

\* The latest run has ended with scanning_finished and stop_scanning was not
\* called during it.
FinishedUncancelled ==
    /\ scan_pc = "stopped"
    /\ FinishedEvents # <<>>
    /\ cancel_at = "none"

\* Both passes of the latest run saw every file of the tree.
WalkedWholeTree ==
    /\ Len(ProgressEvents) = Len(WalkFiles(Tree(walk_root)))
    /\ total_files = Len(SelectSeq(WalkFiles(Tree(walk_root)), Matches))

\* C12: in every run that was not cancelled the last progress_updated signal
\* has current = total, whatever mix of matching and other files the tree holds.
LastProgressReachesTotal ==
    (FinishedUncancelled /\ WalkedWholeTree /\ ProgressEvents # <<>>) =>
        ProgressEvents[Len(ProgressEvents)].current = ProgressEvents[Len(ProgressEvents)].total

\* C13: when a run ends with scanning_finished(count), count is the number of
\* photo_found signals of that run, each of them for a matching file.
FinishedCountsFoundEvents ==
    (scan_pc = "stopped" /\ FinishedEvents # <<>>) =>
        /\ FinishedEvents[1].current = Len(FoundEvents)
        /\ \A i \in 1..Len(FoundEvents) : Matches(FoundEvents[i].path)

\* The signals that end a run: scanning_finished, and the error_occurred of
\* run's own handler.
Terminal(event) == event.type \in {"finished", "fatal"}

\* C14: the terminal signal of a run is its last signal: no photo_found,
\* progress_updated or error signal of the run follows it.
TerminalEventIsLast ==
    \A i \in 1..Len(scan_events) : Terminal(scan_events[i]) => i = Len(scan_events)

\* A run that found two photos has ended with scanning_finished.
FinishedAfterTwoFound ==
    /\ scan_pc = "stopped"
    /\ Len(FoundEvents) = 2
    /\ scan_events[Len(scan_events)].type = "finished"

\* C15: a run whose stop flag was set during its counting or extracting pass
\* never emits scanning_finished.
CancelledRunNeverFinishes ==
    (cancel_at \in {"count", "scan", "store"} /\ scan_should_stop) => FinishedEvents = <<>>

\* The paths of the photo_found signals of the latest run, in order.
FoundPaths == [i \in 1..Len(FoundEvents) |-> FoundEvents[i].path]

\* The latest run was cancelled, has ended, and its signals have been handled;
\* start_scanning was called for this run only.
CancelledRunSettled ==
    /\ scan_calls = 1
    /\ cancel_at # "none"
    /\ scan_pc = "stopped"
    /\ scan_signals = <<>>

ScanPhotosRefuses ==
    /\ scan_call_error' # NoError
    /\ scan_call_error' # scan_call_error

\* C17: scan_photos with an empty or missing root emits an error and changes
\* nothing: the root path, the stop flag, the found counter and the thread are
\* as before, and no signal of a run is emitted by the call.
InvalidRootRejected ==
    [][ScanPhotosRefuses =>
          /\ scan_call_error' \in InvalidRoots
          /\ UNCHANGED <<root_path, scan_should_stop, photos_found, scan_pc,
                         scan_events, scan_signals, photo_database>>]_vars

\* scan_photos has refused a missing root while a cancelled run with one found
\* photo was active.
RefusedDuringRun ==
    /\ scan_call_error = "gone"
    /\ root_path = "photos"
    /\ scan_pc = "scan"
    /\ scan_should_stop
    /\ photos_found = 1

\* C18: start_scanning while a run is active is rejected: the run's root path,
\* stop flag and found counter stay as they are.
RunningScanUntouched ==
    [][(scan_pc # "stopped" /\ scan_calls' # scan_calls) =>
          UNCHANGED <<root_path, scan_should_stop, photos_found>>]_vars

\* C19, as stated: a file whose metadata (dimensions, embedded timestamp,
\* hash) could not be read gets an error signal and no photo_found, so every
\* image reported by photo_found has its dimensions.
FoundPhotosHaveDimensions ==
    \A i \in 1..Len(FoundEvents) :
        Extension(FoundEvents[i].path) \in supported_formats => FoundEvents[i].current = 1

ExtractErrors == EventsOfType(scan_events, "extract_error")

\* The signals a step has added to those of the run.
NewEvents == SubSeq(scan_events', Len(scan_events) + 1, Len(scan_events'))

\* A step of the second pass that has examined one file.
ExaminesFile == processed' = processed + 1
ExaminedFile == WalkFiles(Tree(walk_root))[walk_pos + 1]

\* C19: an extraction that raises emits one error signal with the file's path
\* and no photo_found for the file, and the walk goes on with the next file;
\* every file examined gets its progress signal and at most one further signal.
ExtractErrorSkipsOnlyThatFile ==
    /\ [][ExaminesFile =>
            /\ NewEvents # <<>>
            /\ NewEvents[1] = ProgressEvent(processed', total_files)
            /\ Len(NewEvents) <= 2
            /\ Len(NewEvents) = 2 =>
                  /\ NewEvents[2].type \in {"photo_found", "extract_error"}
                  /\ NewEvents[2].path = ExaminedFile
                  /\ Matches(ExaminedFile)
            /\ (Len(NewEvents) = 2 /\ NewEvents[2].type = "extract_error") =>
                  /\ scan_pc' = "scan"
                  /\ walk_pos' = walk_pos + 1]_vars
    /\ [](\A i \in 1..Len(ExtractErrors) : \A j \in 1..Len(FoundEvents) :
              ExtractErrors[i].path # FoundEvents[j].path)

\* The extraction of a.jpg failed and the walk went on to report b.mp4.
FoundAfterExtractError ==
    \E i \in 1..Len(scan_events) : \E j \in (i + 1)..Len(scan_events) :
        /\ scan_events[i] = ScanErrorEvent("extract_error", "a.jpg")
        /\ scan_events[j].type = "photo_found"
        /\ scan_events[j].path = "b.mp4"

WalkErrors == EventsOfType(scan_events, "walk_error")

\* C20: a run whose directory walk failed emits no scanning_finished.
WalkFailureNeverFinishes ==
    WalkErrors # <<>> => FinishedEvents = <<>>

---------------------------------------------------------------------------
\* Properties of the photo database.

\* How often x occurs in a sequence.
Count(x, seq) == Cardinality({i \in 1..Len(seq) : seq[i] = x})

\* How often x occurs in the lists of the folder index.
IndexCount(x) ==
    IF FolderPath(x) \in DOMAIN photos_by_folder
    THEN Count(x, photos_by_folder[FolderPath(x)]) ELSE 0

IndexedItems == UNION {Range(photos_by_folder[f]) : f \in DOMAIN photos_by_folder}

\* C21: between the operations of the database the folder index holds the
\* items of the master list, each as often as the master list and under its
\* own folder_path; an empty master list goes with empty folder and hash
\* indexes, as clear leaves them.
FolderIndexMatchesMaster ==
    /\ \A f \in DOMAIN photos_by_folder : \A i \in 1..Len(photos_by_folder[f]) :
           FolderPath(photos_by_folder[f][i]) = f
    /\ \A x \in Range(photo_database) \cup IndexedItems :
           Count(x, photo_database) = IndexCount(x)
    /\ photo_database = <<>> => (photos_by_folder = EmptyDict /\ photos_by_hash = EmptyDict)

\* Three items in two folders.
ThreeItemsInTwoFolders ==
    /\ photo_database = <<"a.jpg", "d.jpg", "e.jpg">>
    /\ DOMAIN photos_by_folder = {"photos", "album"}

\* C22: a list returned by get_all_photos or get_photos_by_folder is a
\* snapshot: what its caller holds is not changed by a later add_photo or
\* clear, only replaced by the caller's next read.
ReadsAreSnapshots ==
    [][db_read'.result # db_read.result => photo_database' = photo_database]_vars

\* Two sequences hold the same items, each as often.
SameItems(s, t) == \A x \in Range(s) \cup Range(t) : Count(x, s) = Count(x, t)

\* Newest first.
NewestFirst(seq) ==
    \A i \in 1..Len(seq) : \A j \in i..Len(seq) :
        CreationTime(seq[i]) >= CreationTime(seq[j])

\* C23: get_all_photos returns the items of the master list, each as often as
\* the master list holds it, ordered by creation_time descending.
AllPhotosSortedComplete ==
    db_read.op = "get_all_photos" =>
        /\ SameItems(db_read.result, db_read.source)
        /\ Len(db_read.result) = Len(db_read.source)
        /\ NewestFirst(db_read.result)

\* get_all_photos has reordered a master list of three items.
AllPhotosReordered ==
    /\ db_read.op = "get_all_photos"
    /\ db_read.source = <<"b.mp4", "e.jpg", "a.jpg">>
    /\ db_read.result = <<"a.jpg", "b.mp4", "e.jpg">>

\* How many items of a sequence have the hash of x.
HashCount(x, seq) == Cardinality({i \in 1..Len(seq) : FileHash(seq[i]) = FileHash(x)})

\* How often x occurs in the groups whose first item has the hash of x.
GroupCount(x, groups) ==
    LET mine == {g \in 1..Len(groups) : FileHash(groups[g][1]) = FileHash(x)}
    IN IF mine = {} THEN 0 ELSE Count(x, groups[CHOOSE g \in mine : TRUE])

\* C24: find_duplicates returns the groups of master-list items sharing a
\* non-empty file_hash: every group has more than one item, all of one
\* non-empty hash, no two groups have the same hash, an item whose non-empty
\* hash another item shares is in its hash's group, and an item with an empty
\* or unshared hash is in none.
DuplicateGroupsExact ==
    db_read.op = "find_duplicates" =>
        LET groups == db_read.groups
            source == db_read.source
        IN /\ \A g \in 1..Len(groups) :
                  /\ Len(groups[g]) > 1
                  /\ \A i \in 1..Len(groups[g]) :
                         /\ FileHash(groups[g][i]) # ""
                         /\ FileHash(groups[g][i]) = FileHash(groups[g][1])
                         /\ groups[g][i] \in Range(source)
           /\ \A g \in 1..Len(groups) : \A h \in 1..Len(groups) :
                  g # h => FileHash(groups[g][1]) # FileHash(groups[h][1])
           /\ \A x \in Range(source) :
                  GroupCount(x, groups) =
                      IF FileHash(x) # "" /\ HashCount(x, source) > 1
                      THEN Count(x, source) ELSE 0

\* find_duplicates has grouped a.jpg with its copy and left out the item
\* without a hash.
CopyGroupedHashlessLeftOut ==
    /\ db_read.op = "find_duplicates"
    /\ db_read.source = <<"a.jpg", "b.mp4", "d.jpg">>
    /\ db_read.groups = << <<"a.jpg", "d.jpg">> >>

\* C25: the master list never holds two items with the same file_path.
FilePathIsUniqueKey ==
    \A i \in 1..Len(photo_database) : \A j \in 1..Len(photo_database) :
        i # j => photo_database[i] # photo_database[j]

---------------------------------------------------------------------------
\* Properties of the gallery's visible range.

\* The visible range update_visible_items computes in the state a step leads to.
NextRange == ComputeRange(Len(photos'), columns', row_height', rows', scroll_value',
                          viewport_height')

\* After the step every photo of the computed visible range has a widget of
\* the current thumbnail size.
RangeMaterialized ==
    \A i \in NextRange[1]..(NextRange[2] - 1) :
        \E k \in 1..Len(thumbnail_widgets') :
            /\ thumbnail_widgets'[k].path = photos'[i + 1]
            /\ thumbnail_widgets'[k].size = thumbnail_size'

\* A step that changes the thumbnail size or the column count of a gallery
\* showing photos: set_thumbnail_size, or a resizeEvent that rebuilds.
RebuildStep ==
    /\ photos # <<>>
    /\ photos' = photos
    /\ thumbnail_size' # thumbnail_size \/ columns' # columns

\* C26: after set_thumbnail_size or a resize that changes the column count,
\* the old widgets are gone and the photos of the visible range have widgets
\* of the new size.
RebuildMaterializesRange ==
    [][RebuildStep => RangeMaterialized]_vars

\* A step that ends in update_visible_items on a non-empty list: set_photos
\* with another list, or the viewport timer firing after a scroll.
UpdateStep ==
    /\ photos' # <<>>
    /\ photos' # photos \/ (viewport_timer /\ ~viewport_timer')

\* C27: after set_photos with a non-empty list and after every scroll update,
\* each photo of the computed visible range has a widget.
VisibleRangeMaterialized ==
    [][UpdateStep => RangeMaterialized]_vars

---------------------------------------------------------------------------
\* Properties of the eviction.  A step in which the viewport timer fires runs
\* update_visible_items on the widgets of the state it starts from.

TimerFires == viewport_timer /\ ~viewport_timer'

\* The range the update computes, and the widgets after create_visible_thumbnails.
UpdateRange == ComputeRange(Len(photos), columns, row_height, rows, scroll_value,
                            viewport_height)
UpdateCreated == CreateVisibleThumbnails(photos, thumbnail_widgets, UpdateRange[1],
                                         UpdateRange[2], 0, thumbnail_size)
UpdateRuns == ~RangeUnchanged(UpdateRange, visible_range, columns)

\* The paths the update's cleanup has removed.
Evicted == WidgetPaths(UpdateCreated) \ WidgetPaths(thumbnail_widgets')

\* The photo's index lies in [start_index - 3 * columns, end_index + 3 * columns).
InBuffer(photo_path) ==
    /\ PhotoIndex(photos, photo_path) >= UpdateRange[1] - 3 * columns
    /\ PhotoIndex(photos, photo_path) < UpdateRange[2] + 3 * columns

\* C28: no thumbnail inside the buffered window is evicted while a thumbnail
\* outside it stays materialized.
OutsideBufferEvictedFirst ==
    [][(TimerFires /\ UpdateRuns) =>
          \A gone \in Evicted : \A kept \in WidgetPaths(thumbnail_widgets') :
              ~(InBuffer(gone) /\ ~InBuffer(kept))]_vars

\* The visible range's paths, as cleanup_invisible_thumbnails collects them.
VisiblePaths(range) ==
    {photos[i + 1] : i \in {j \in range[1]..(range[2] - 1) : j < Len(photos)}}

\* C29: eviction is triggered by the ceiling only.  With at most max_thumbnails
\* widgets after the creation nothing is removed; with more, the removal stops
\* at max_thumbnails and never goes below it, and widgets above the ceiling
\* remain only when all of them are in the visible range.
EvictionStopsAtCeiling ==
    [][(TimerFires /\ UpdateRuns) =>
          /\ Len(UpdateCreated) <= max_thumbnails => thumbnail_widgets' = UpdateCreated
          /\ Len(UpdateCreated) > max_thumbnails =>
                /\ Len(thumbnail_widgets') >= max_thumbnails
                /\ \/ Len(thumbnail_widgets') = max_thumbnails
                   \/ WidgetPaths(thumbnail_widgets') \subseteq VisiblePaths(UpdateRange)]_vars

\* Scrolled down and back up with a ceiling of 4: the fifth widget made the
\* cleanup evict the oldest one, p4, and stop with 4 widgets left.
EvictedDownToCeiling ==
    /\ max_thumbnails = 4
    /\ ~viewport_timer
    /\ visible_range = <<0, 2>>
    /\ [k \in 1..Len(thumbnail_widgets) |-> thumbnail_widgets[k].path]
         = <<"p5.jpg", "p6.jpg", "p1.jpg", "p2.jpg">>

\* Both ends of the computed range are closer than 2 * columns to the stored ones.
WithinSuppression ==
    /\ Abs(UpdateRange[1] - visible_range[1]) < 2 * columns
    /\ Abs(UpdateRange[2] - visible_range[2]) < 2 * columns

\* C30: an update whose computed range is within 2 * columns of the stored
\* visible_range at both ends does no work: visible_range, the widgets and the
\* generator, its queue included, stay as they are.
SuppressedUpdateDoesNothing ==
    [][(TimerFires /\ WithinSuppression) =>
          UNCHANGED <<visible_range, thumbnail_widgets, genVars>>]_vars

\* After a suppressed update: the view is scrolled, the timer has fired, and the
\* stored range is not the one the scroll position gives but is within
\* 2 * columns of it.
ScrolledWithinSuppression ==
    /\ photos # <<>>
    /\ thumbnail_widgets # <<>>
    /\ scroll_value > 0
    /\ ~viewport_timer
    /\ visible_range # ComputeRange(Len(photos), columns, row_height, rows, scroll_value,
                                    viewport_height)
    /\ RangeUnchanged(ComputeRange(Len(photos), columns, row_height, rows, scroll_value,
                                   viewport_height), visible_range, columns)

---------------------------------------------------------------------------
\* Properties of the generator's batches.

\* A step that takes requests from the queue into a batch.
StartsBatch == batch' # batch /\ request_queue' # request_queue

\* C31: batches never overlap.  A batch is taken from the queue only when no
\* batch is being processed, and while one is processed (self.processing) the
\* queue loses nothing to a tick and every signal emitted is for a request of
\* the running batch.
BatchesNeverOverlap ==
    [][/\ StartsBatch => (~processing /\ batch = <<>> /\ emitted' = emitted)
       /\ processing => /\ Len(request_queue') >= Len(request_queue)
                        /\ batch' \in {batch} \cup (IF batch = <<>> THEN {} ELSE {Tail(batch)})
                        /\ emitted' # emitted /\ emitted' # <<>> =>
                              \A i \in 1..Len(emitted') : emitted'[i].path = Head(batch)[1]
       /\ processing' = (pc' = "batch")]_vars

\* A batch is half drained while the process timer is active and requests are
\* waiting in the queue.
BatchRunningQueueWaiting ==
    /\ pc = "batch"
    /\ processing
    /\ timer_active
    /\ request_queue # <<>>
    /\ batch # <<>>
    /\ last_request # NoRequest

\* The requests accepted and not yet answered, in the order they will be
\* answered: the rest of the running batch, then the queue.
Pending == batch \o request_queue

IsPrefix(s, t) == Len(s) <= Len(t) /\ SubSeq(t, 1, Len(s)) = s

\* stop_generation or clear_queue empties a queue that held requests.
CancelStep == request_queue # <<>> /\ request_queue' = <<>> /\ batch' = batch

\* C32: a tick takes at most max_batch_size requests from the head of the
\* queue and leaves the others in their order; the signals of a step are for
\* the first pending request, which is then removed; accepted requests are
\* appended.  So, cancellation apart, requests are answered in the order they
\* were accepted.
AnsweredInAcceptedOrder ==
    [][/\ StartsBatch => /\ Len(batch') <= max_batch_size
                         /\ batch' \o request_queue' = request_queue
                         /\ IsPrefix(batch', request_queue)
       /\ ~CancelStep =>
             \/ /\ Pending' = Pending
                /\ emitted' = emitted \/ emitted' = <<>>
             \/ /\ Pending # <<>>
                /\ Pending' = Tail(Pending)
                /\ request_queue' = request_queue
                /\ emitted' # <<>>
                /\ \A i \in 1..Len(emitted') : emitted'[i].path = Head(Pending)[1]
             \/ /\ Len(Pending') > Len(Pending)
                /\ IsPrefix(Pending, Pending')
                /\ emitted' = emitted]_vars

\* The first request of a full batch has been answered while three requests
\* accepted after the batch's wait in the queue.
FirstOfBatchAnswered ==
    /\ pc = "batch"
    /\ Len(batch) = max_batch_size - 1
    /\ Len(request_queue) = 3
    /\ last_request[1] = Photo(1)
    /\ emitted # <<>>

\* A step that takes requests out of the queue without handing them to a batch.
DropsRequests == Len(request_queue') < Len(request_queue) /\ batch' = batch

\* A step that emits signals.
Emits == emitted' # emitted /\ emitted' # <<>>

\* C33: cancellation empties the whole queue and touches nothing else: the
\* requests it drops are in no batch, so no signal is emitted for them, while
\* the requests of the running batch are answered one after the other; and a
\* signal for a path without a widget leaves the widgets as they are.
CancelDropsPendingOnly ==
    [][/\ DropsRequests => (request_queue' = <<>> /\ emitted' = emitted)
       /\ batch' # batch =>
             \/ /\ batch = <<>>
                /\ IsPrefix(batch', request_queue)
                /\ emitted' = emitted
             \/ /\ batch # <<>>
                /\ batch' = Tail(batch)
                /\ Emits
       /\ Emits => /\ batch # <<>>
                   /\ \A i \in 1..Len(emitted') : emitted'[i].path = Head(batch)[1]
                   /\ WidgetPaths(thumbnail_widgets') = WidgetPaths(thumbnail_widgets)
                   /\ Head(batch)[1] \notin WidgetPaths(thumbnail_widgets) =>
                         thumbnail_widgets' = thumbnail_widgets]_vars

\* stop_generation was called inside the running batch, whose later requests
\* are still being answered; the gallery has no widget for them.
StoppedInsideBatch ==
    /\ pc = "batch"
    /\ should_stop
    /\ request_queue = <<>>
    /\ Len(batch) < max_batch_size - 2
    /\ batch # <<>>
    /\ emitted # <<>>
    /\ last_request[1] \notin WidgetPaths(thumbnail_widgets)

---------------------------------------------------------------------------
\* Properties of the scanner under commands.

\* C34: once stop_scanning has been called in a run, the run examines at most
\* one further file and ends.  In particular a run stopped before its
\* extracting pass began examines at most one file in that pass.
StoppedRunExaminesOneFile ==
    (cancel_at \in {"started", "count"} /\ scan_pc \in {"scan", "store", "finish"})
        => processed <= 1

\* The files of the trees that lie below a hidden directory: .trash/raw-bytes.jpg
\* and .trash/old/old.jpg.
FilesBelowHidden == {"raw-bytes.jpg", "old.jpg"}

RECURSIVE AllFiles(_)
AllFiles(dirs) == IF dirs = <<>> THEN {} ELSE Range(Head(dirs).files) \cup AllFiles(Tail(dirs))

\* The files of a tree that are not below a hidden directory.
FilesInSight(root) == AllFiles(Tree(root)) \ FilesBelowHidden

---------------------------------------------------------------------------
\* Properties of the generator after a stop.

\* C36: a request accepted after stop_generation has been called is
\* eventually answered by thumbnail_ready or error_occurred for its path.
AnsweredAfterStop ==
    \A file_path \in GenPaths :
        (should_stop /\ \E i \in 1..Len(request_queue) : request_queue[i][1] = file_path)
            ~> (\E i \in 1..Len(emitted) : emitted[i].path = file_path)

---------------------------------------------------------------------------
\* Properties of what the cache holds.

\* C37: only generated thumbnails are persisted.  No cache entry holds an error
\* raster, and no request is answered from the cache with one.
NoErrorRasterCached ==
    /\ \A cache_path \in DOMAIN cache : cache[cache_path].pixmap.kind # "error"
    /\ last_outcome = "cache_hit" =>
          \A i \in 1..Len(emitted) : emitted[i].pixmap.kind # "error"

---------------------------------------------------------------------------
\* Properties of the rasters the widgets show.

\* C38: every raster delivered to a widget was generated for the gallery's
\* current thumbnail size.
RastersHaveCurrentSize ==
    \A k \in 1..Len(thumbnail_widgets) :
        thumbnail_widgets[k].pixmap.kind \in {"image", "video", "error"} =>
            thumbnail_widgets[k].pixmap.size = thumbnail_size

---------------------------------------------------------------------------
\* Properties of the materialized set.

\* C39: the cleanup never evicts a thumbnail of the visible range, and every
\* widget belongs to a photo of the current list.
VisibleKeptWidgetsOfList ==
    /\ [](WidgetPaths(thumbnail_widgets) \subseteq Range(photos))
    /\ [][(TimerFires /\ UpdateRuns) => Evicted \cap VisiblePaths(UpdateRange) = {}]_vars

\* Scrolled down with a ceiling of 4: the cleanup has evicted p1, has kept p2
\* and the three widgets of the visible range.
EvictedAboveVisibleRange ==
    /\ max_thumbnails = 4
    /\ ~viewport_timer
    /\ visible_range = <<3, 6>>
    /\ [k \in 1..Len(thumbnail_widgets) |-> thumbnail_widgets[k].path]
         = <<"p2.jpg", "p4.jpg", "p5.jpg", "p6.jpg">>

---------------------------------------------------------------------------
\* Properties of the database when a scan ends.

\* The main thread handles a scanning_finished signal.
FinishedHandled ==
    /\ scan_signals # <<>>
    /\ Head(scan_signals).type = "finished"
    /\ scan_signals' = Tail(scan_signals)

\* C40: when scanning_finished(count) is handled the database holds exactly
\* count items, and they are the items of the photo_found signals of the run
\* that has just ended.
DatabaseHoldsRunAtFinish ==
    [][FinishedHandled =>
          /\ Len(photo_database) = Head(scan_signals).current
          /\ scan_pc = "stopped" => photo_database = FoundPaths]_vars

====
